---- MODULE Spec2Model ----
(***************************************************************************)
(* Conversation routing of the learning-ai-assistant bots.                 *)
(*                                                                         *)
(* src/backend/telegram.js holds two modules: the Telegram bot (lines      *)
(* 1-709) and the Discord bot (lines 710-1200).  Each keeps its own Maps   *)
(* in process memory; the two share no state.  A behaviour of this model   *)
(* is the life of one of the two bots, chosen by `platform` in Init.       *)
(*                                                                         *)
(* A JavaScript Map is a function with a finite domain: `k \in DOMAIN m`   *)
(* is m.has(k).  A message text is a sequence of tokens: a token is one    *)
(* character ("r", "@", " ", "\n", a digit), an ordinary word ("a", "b")   *)
(* or a command keyword written as the source writes it ("/link_topic").   *)
(* Every platform call (send, create, fetch, insert) is an input of the    *)
(* handler that makes it: "ok" or one of the failures the code tells       *)
(* apart.  A handler runs as one action.                                   *)
(***************************************************************************)
EXTENDS Integers, Sequences, FiniteSets, TLC

\* Bounds of the model.
MaxId == 2
MaxTopic == 2
MaxMsg == 2

\* JavaScript null / undefined, where the value is otherwise a number.
None == 0 - 1

Identities == 1..MaxId
\* The chat the operator works in; no external identity has this id.
MgmtChat == MaxId + 1
\* Unit ids the platform hands out are 1, 2, ..., MaxTopic.
\* The ids of forwarded messages are 1..MaxMsg; OtherMsg is a message of the
\* management chat that no forward produced (a notice, an operator's message).
OtherMsg == MaxMsg + 1

----------------------------------------------------------------------------
\* Maps

MapGet(m, k) == IF k \in DOMAIN m THEN m[k] ELSE None

MapSet(m, k, v) == [x \in DOMAIN m \cup {k} |-> IF x = k THEN v ELSE m[x]]

MapDelete(m, k) == [x \in DOMAIN m \ {k} |-> m[x]]

EmptyMap == [x \in {} |-> None]

----------------------------------------------------------------------------
\* Texts and the regular expressions of the source

DigitStr == <<"0", "1", "2", "3", "4", "5", "6", "7", "8", "9">>

Digits == {DigitStr[i] : i \in 1..10}

D(n) == DigitStr[n + 1]

DigitVal(c) == (CHOOSE i \in 1..10 : DigitStr[i] = c) - 1

IsDigit(c) == c \in Digits

\* \s of a JavaScript regular expression.
IsSpace(c) == c \in {" ", "\n"}

\* . of a JavaScript regular expression without the s flag: not a newline.
IsDot(c) == c # "\n"

\* How many tokens from position i on are digits (\d+ is greedy).
DigitRun(s, i) ==
  CHOOSE n \in 0..(Len(s) + 1 - i) :
    /\ \A k \in i..(i + n - 1) : IsDigit(s[k])
    /\ (i + n <= Len(s) => ~IsDigit(s[i + n]))

\* How many tokens from position i on are white space (\s+ is greedy).
SpaceRun(s, i) ==
  CHOOSE n \in 0..(Len(s) + 1 - i) :
    /\ \A k \in i..(i + n - 1) : IsSpace(s[k])
    /\ (i + n <= Len(s) => ~IsSpace(s[i + n]))

RECURSIVE DecimalValue(_)
DecimalValue(ds) ==
  IF ds = << >> THEN 0
  ELSE 10 * DecimalValue(SubSeq(ds, 1, Len(ds) - 1)) + DigitVal(ds[Len(ds)])

\* parseInt of a string of digits.
ParseInt(ds) == DecimalValue(ds)

\* The Map key a string of digits is.  chat.id.toString() of identity i is
\* D(i); the texts of this model write no leading zero, so the keys are
\* told apart by their value.
KeyOf(ds) == DecimalValue(ds)

NoMatch == [ok |-> FALSE, id |-> None, body |-> << >>]

\* text.match(/^<sigil>(\d+)\s+(.+)$/): the sigil, digits, white space, then
\* a body of at least one token none of which is a newline.  \s+ takes as
\* much white space as leaves a body that matches.
MatchAddressed(text, sigil) ==
  IF Len(text) < 2 \/ text[1] # sigil THEN NoMatch
  ELSE LET d == DigitRun(text, 2)
           w == SpaceRun(text, 2 + d)
           Fits(k) == /\ 2 + d + k <= Len(text)
                      /\ \A j \in (2 + d + k)..Len(text) : IsDot(text[j])
           ks == {k \in 1..w : Fits(k)}
       IN IF d < 1 \/ ks = {} THEN NoMatch
          ELSE LET k == CHOOSE x \in ks : \A y \in ks : y <= x
               IN [ok |-> TRUE,
                   id |-> KeyOf(SubSeq(text, 2, 1 + d)),
                   body |-> SubSeq(text, 2 + d + k, Len(text))]

\* text.match(/^r(\d+)\s+(.+)$/)
LegacyMatchTelegram(text) == MatchAddressed(text, "r")

\* text.match(/^@(\d+)\s+(.+)$/)
LegacyMatchDiscord(text) == MatchAddressed(text, "@")

NoLink == [ok |-> FALSE, chatId |-> None, topicId |-> None]

\* msg.text?.match(/^\/link_topic\s+(\d+)\s+(\d+)$/), chatId = linkMatch[1],
\* topicId = parseInt(linkMatch[2]).
LinkMatch(text) ==
  IF Len(text) < 1 \/ text[1] # "/link_topic" THEN NoLink
  ELSE LET w1 == SpaceRun(text, 2)
           d1 == DigitRun(text, 2 + w1)
           w2 == SpaceRun(text, 2 + w1 + d1)
           d2 == DigitRun(text, 2 + w1 + d1 + w2)
       IN IF w1 >= 1 /\ d1 >= 1 /\ w2 >= 1 /\ d2 >= 1
             /\ 1 + w1 + d1 + w2 + d2 = Len(text)
          THEN [ok |-> TRUE,
                chatId |-> KeyOf(SubSeq(text, 2 + w1, 1 + w1 + d1)),
                topicId |-> ParseInt(SubSeq(text, 2 + w1 + d1 + w2, Len(text)))]
          ELSE NoLink

\* text.match(/^\/info\s+(\d+)$/)
InfoMatch(text) ==
  /\ Len(text) >= 1
  /\ text[1] = "/info"
  /\ LET w == SpaceRun(text, 2)
         d == DigitRun(text, 2 + w)
     IN w >= 1 /\ d >= 1 /\ 1 + w + d = Len(text)

\* msg.text || 'No text content'
NoTextContent == <<"No text content">>

TextOrDefault(text) == IF text = << >> THEN NoTextContent ELSE text

\* msg.from?.username || msg.from?.first_name || 'Unknown': one name per
\* identity.
UserName(i) == <<"user", D(i)>>

\* A variant that puts no label before the text: C23 fails of it.
LabelledBare(i, text) == text

\* `*${username}*: ${messageText}` (Telegram), `**${username}**: ${messageText}`
\* (Discord): the label, then the text.
Labelled(i, text) == UserName(i) \o <<": ">> \o text

----------------------------------------------------------------------------
\* State

VARIABLES
  platform,                  \* which bot this behaviour is the life of
  MANAGEMENT_CHAT_ID,        \* Telegram: the management chat, or None
  USE_TOPICS,                \* Telegram: organizational units on
  managementChatVerified,
  userTopics,                \* chat id -> topic id
  topicUsers,                \* topic id -> chat id
  pendingReplies,            \* chat id -> the latest forward of that chat
  forwardedMessageMap,       \* forwarded message id -> chat id
  MANAGEMENT_CHANNEL_ID,     \* Discord: guild and channel configured, or None
  USE_THREADS,               \* Discord: organizational units on
  managementChannelVerified,
  userThreads,               \* user id -> thread id
  threadUsers,               \* thread id -> user id
  pendingRepliesDiscord,     \* user id -> the latest forward of that user
  startupTimer,              \* the setTimeout of the startup probe is pending
  nextUnitId,                \* platform: the id the next created unit gets
  nextMsgId,                 \* platform: the id the next message gets
  last,                      \* what the last handler did
  hist,                      \* what has happened to each identity so far
  awaiting,                  \* handlers suspended at an await, oldest first
  messages                   \* the rows of the messages table

vars == <<platform, MANAGEMENT_CHAT_ID, USE_TOPICS, managementChatVerified,
          userTopics, topicUsers, pendingReplies, forwardedMessageMap,
          MANAGEMENT_CHANNEL_ID, USE_THREADS, managementChannelVerified,
          userThreads, threadUsers, pendingRepliesDiscord, startupTimer,
          nextUnitId, nextMsgId, last, hist, awaiting, messages>>

telegramVars == <<MANAGEMENT_CHAT_ID, USE_TOPICS, managementChatVerified,
                  userTopics, topicUsers, pendingReplies, forwardedMessageMap>>

\* MANAGEMENT_GUILD_ID (line 724): the guild of the management channel.  The
\* configurations here set the guild and the channel together.
MgmtGuild == MaxId + 2
MANAGEMENT_GUILD_ID == IF MANAGEMENT_CHANNEL_ID = None THEN None ELSE MgmtGuild

discordVars == <<MANAGEMENT_CHANNEL_ID, USE_THREADS, managementChannelVerified,
                 userThreads, threadUsers, pendingRepliesDiscord>>

\* hist.permFailed[i]: a create-unit call for i failed for want of
\* permission or capability and no unit has been created for or linked to i
\* since; hist.forwarded[f]: the identity whose message the management chat
\* shows as message f; hist.surface[f]: the unit message f was posted in
\* (None: the shared chat); hist.created[i]: the units the platform created
\* at the request of a handler of a message of i.
HistInit ==
  [permFailed |-> [i \in Identities |-> FALSE],
   forwarded |-> EmptyMap,
   surface |-> EmptyMap,
   created |-> [i \in Identities |-> {}]]

Init ==
  /\ platform \in {"telegram", "discord"}
  /\ MANAGEMENT_CHAT_ID \in {None, MgmtChat}
  /\ USE_TOPICS \in BOOLEAN
  /\ managementChatVerified = FALSE
  /\ userTopics = EmptyMap
  /\ topicUsers = EmptyMap
  /\ pendingReplies = EmptyMap
  /\ forwardedMessageMap = EmptyMap
  /\ MANAGEMENT_CHANNEL_ID \in {None, MgmtChat}
  /\ USE_THREADS \in BOOLEAN
  /\ managementChannelVerified = FALSE
  /\ userThreads = EmptyMap
  /\ threadUsers = EmptyMap
  /\ pendingRepliesDiscord = EmptyMap
  /\ startupTimer = (MANAGEMENT_CHAT_ID # None \/ MANAGEMENT_CHANNEL_ID # None)
  /\ nextUnitId = 1
  /\ nextMsgId = 1
  /\ last = [op |-> "start"]
  /\ hist = HistInit
  /\ awaiting = << >>
  /\ messages = {}
  /\ (platform = "telegram" => MANAGEMENT_CHANNEL_ID = None /\ USE_THREADS = FALSE)
  /\ (platform = "discord" => MANAGEMENT_CHAT_ID = None /\ USE_TOPICS = FALSE)

\* Outcomes of the platform calls.  A create-unit call fails with "perm"
\* (the error names missing rights or a missing capability) or "other"; a
\* send into the management chat fails with "chat not found" or "fail".
SendOutcomes == {"ok", "fail"}
CreateOutcomes == {"ok", "perm", "other"}
ForwardOutcomes == {"ok", "chat not found", "fail"}

----------------------------------------------------------------------------
\* Telegram: forwarding an inbound message

\* A variant that reports the chat as found whatever the probe gives: C38
\* fails of it.
testManagementChatTrusting(probe) ==
  [ret |-> TRUE, verified |-> probe = "ok"]

\* testManagementChat(): the probe sets the verified flag to its result.
testManagementChat(probe) ==
  IF MANAGEMENT_CHAT_ID = None THEN [ret |-> FALSE, verified |-> managementChatVerified]
  ELSE [ret |-> probe = "ok", verified |-> probe = "ok"]

\* A variant that does not look for a topic it has: C3 fails of it.
getOrCreateUserTopicAlways(ut, tu, chatId, create, welcome, help) ==
  LET Same(ret) == [userTopics |-> ut, topicUsers |-> tu, ret |-> ret,
                    calls |-> 0, created |-> None, welcome |-> "none",
                    notice |-> "none", failure |-> "none"]
  IN IF ~USE_TOPICS THEN Same(None)
     ELSE IF create = "ok"
          THEN [userTopics |-> MapSet(ut, chatId, nextUnitId),
                topicUsers |-> MapSet(tu, nextUnitId, chatId),
                ret |-> IF welcome = "ok" THEN nextUnitId ELSE None,
                calls |-> 1, created |-> nextUnitId, welcome |-> welcome,
                notice |-> "none", failure |-> "none"]
          ELSE [Same(None) EXCEPT !.calls = 1, !.failure = create]

\* A variant that remembers a failure for want of permission and does not
\* call createForumTopic again: C10 fails of it.
getOrCreateUserTopicNoRetry(ut, tu, chatId, create, welcome, help) ==
  LET Same(ret) == [userTopics |-> ut, topicUsers |-> tu, ret |-> ret,
                    calls |-> 0, created |-> None, welcome |-> "none",
                    notice |-> "none", failure |-> "none"]
  IN IF ~USE_TOPICS THEN Same(None)
     ELSE IF chatId \in DOMAIN ut THEN Same(ut[chatId])
     ELSE IF hist.permFailed[chatId] THEN Same(None)
     ELSE IF create = "ok"
          THEN [userTopics |-> MapSet(ut, chatId, nextUnitId),
                topicUsers |-> MapSet(tu, nextUnitId, chatId),
                ret |-> IF welcome = "ok" THEN nextUnitId ELSE None,
                calls |-> 1, created |-> nextUnitId, welcome |-> welcome,
                notice |-> "none", failure |-> "none"]
          ELSE [Same(None) EXCEPT !.calls = 1, !.failure = create]

\* getOrCreateUserTopic(chatId, username) on the Maps ut, tu.  create, welcome
\* and help are the outcomes of createForumTopic, of the welcome message and
\* of the 'Manual Topic Creation Needed' message.  In the result, calls counts
\* the createForumTopic calls and notice tells what became of the help message.
getOrCreateUserTopic(ut, tu, chatId, create, welcome, help) ==
  LET Same(ret) == [userTopics |-> ut, topicUsers |-> tu, ret |-> ret,
                    calls |-> 0, created |-> None, welcome |-> "none",
                    notice |-> "none", failure |-> "none"]
      Notice(err) == IF err = "perm"
                     THEN (IF help = "ok" THEN "sent" ELSE "failed")
                     ELSE "none"
  IN IF ~USE_TOPICS THEN Same(None)
     ELSE IF chatId \in DOMAIN ut THEN Same(ut[chatId])
     ELSE IF create = "ok"
          THEN LET topicId == nextUnitId
               IN [userTopics |-> MapSet(ut, chatId, topicId),
                   topicUsers |-> MapSet(tu, topicId, chatId),
                   ret |-> IF welcome = "ok" THEN topicId ELSE None,
                   calls |-> 1, created |-> topicId, welcome |-> welcome,
                   notice |-> IF welcome = "ok" THEN "none" ELSE Notice(welcome),
                   failure |-> "none"]
          ELSE [Same(None) EXCEPT !.calls = 1, !.notice = Notice(create),
                                  !.failure = create]

\* if (topicId): 0 and null are both falsy.
Truthy(topicId) == topicId # None /\ topicId # 0

\* pendingReplies.set(chatId.toString(), {...}) (lines 254-260): the record
\* of the chat is written over.
pendingRepliesSet(pr, chatId, messageText, forwardedMessageId, topicId) ==
  MapSet(pr, chatId,
         [username |-> UserName(chatId), originalMessage |-> messageText,
          forwardedMessageId |-> forwardedMessageId, topicId |-> topicId])

\* A variant that keeps the entry of the latest forward only: C18 fails of
\* it.
forwardedMessageMapSetLatest(fm, messageId, chatId) ==
  MapSet(EmptyMap, messageId, chatId)

\* forwardedMessageMap.set(forwardedMsg.message_id.toString(),
\* chatId.toString()) (line 263).
forwardedMessageMapSet(fm, messageId, chatId) == MapSet(fm, messageId, chatId)

\* A variant that drops the records with the forward: C15 fails of it.
NotForwardedNoRecords(stage, verified) ==
  [verified |-> verified, userTopics |-> userTopics, topicUsers |-> topicUsers,
   pendingReplies |-> EmptyMap, forwardedMessageMap |-> forwardedMessageMap,
   stage |-> stage, calls |-> 0, created |-> None, welcome |-> "none",
   notice |-> "none", failure |-> "none", scope |-> None, payload |-> << >>,
   send |-> "none", fwdId |-> None]

\* What a forward that sends nothing leaves: the state as it is, but for the
\* verified flag.
NotForwarded(stage, verified) ==
  [verified |-> verified, userTopics |-> userTopics, topicUsers |-> topicUsers,
   pendingReplies |-> pendingReplies, forwardedMessageMap |-> forwardedMessageMap,
   stage |-> stage, calls |-> 0, created |-> None, welcome |-> "none",
   notice |-> "none", failure |-> "none", scope |-> None, payload |-> << >>,
   send |-> "none", fwdId |-> None]

\* forwardToManagement(originalMsg) for a message of chat i with text `text`;
\* o holds the outcomes of the platform calls it makes.  The result holds the
\* new values of the state the function writes and what it did: stage is how
\* far it got, scope the topic the send was addressed to (None: the chat
\* itself), payload the text sent, fwdId the id of the forwarded message.
forwardToManagement(i, text, o) ==
  LET Stay(stage, verified) == NotForwarded(stage, verified)
      t == testManagementChat(o.probe)
  IN IF MANAGEMENT_CHAT_ID = None THEN Stay("unconfigured", managementChatVerified)
     ELSE IF ~managementChatVerified /\ ~t.ret THEN Stay("unverified", t.verified)
     ELSE
       LET verified == IF managementChatVerified THEN TRUE ELSE t.verified
           messageText == TextOrDefault(text)
           g == IF USE_TOPICS
                THEN getOrCreateUserTopic(userTopics, topicUsers, i, o.create,
                                          o.welcome, o.help)
                ELSE [userTopics |-> userTopics, topicUsers |-> topicUsers,
                      ret |-> None, calls |-> 0, created |-> None,
                      welcome |-> "none", notice |-> "none", failure |-> "none"]
           topicId == g.ret
           contextMessage == IF Truthy(topicId) THEN messageText
                             ELSE Labelled(i, messageText)
           scope == IF Truthy(topicId) THEN topicId ELSE None
           sent == o.send = "ok"
       IN [verified |-> IF o.send = "chat not found" THEN FALSE ELSE verified,
           userTopics |-> g.userTopics,
           topicUsers |-> g.topicUsers,
           pendingReplies |->
             IF sent
             THEN pendingRepliesSet(pendingReplies, i, messageText, nextMsgId,
                                    topicId)
             ELSE pendingReplies,
           forwardedMessageMap |->
             IF sent THEN forwardedMessageMapSet(forwardedMessageMap, nextMsgId, i)
             ELSE forwardedMessageMap,
           stage |-> "sent", calls |-> g.calls, created |-> g.created,
           welcome |-> g.welcome, notice |-> g.notice, failure |-> g.failure,
           scope |-> scope, payload |-> contextMessage, send |-> o.send,
           fwdId |-> IF sent THEN nextMsgId ELSE None]

\* What logMessage is called with for a message of a user: the message.
UserMessage(i, text) == [author |-> "user", chat |-> i, text |-> text]

\* A variant that forwards whatever became of the insert: C13 fails of it.
ExternalMessageUnlogged(i, text, o) == forwardToManagement(i, text, o)

\* The branch of bot.on('message') for a message of an external user (lines
\* 597-606): await logMessage(msg), then forwardToManagement(msg).
\* logMessage throws when the insert fails (supabase.js, logMessage) and the
\* catch of the handler ends it: nothing is forwarded.
ExternalMessage(i, text, o) ==
  IF o.log = "ok" THEN forwardToManagement(i, text, o)
  ELSE NotForwarded("not logged", managementChatVerified)

----------------------------------------------------------------------------
\* Telegram: a message of the operator

\* The options of the failure notice of a reply block: the topic and
\* fallback branches pass message_thread_id (and reply_to_message_id), the reply
\* branch reply_to_message_id alone, the legacy branch nothing.
NoticeOptions(strategy) ==
  IF strategy \in {"topic", "fallback"} THEN "thread"
  ELSE IF strategy = "reply" THEN "reply"
  ELSE "none"

\* What a reply block passes to logMessage: the message the bot sent to the
\* user, as sendMessage returned it.
SentMessage(to, text) == [author |-> "bot", chat |-> to, text |-> text]

\* A variant that logs the message of the operator: C20 fails of it.
TryReplyLogsOperator(strategy, to, text, o) ==
  LET delivered == o.send = "ok"
      logged == delivered /\ o.log = "ok"
      confirmed == logged /\ o.confirm = "ok"
  IN [strategy |-> strategy, to |-> to, text |-> text,
      send |-> o.send,
      persisted |-> <<[author |-> "operator", chat |-> MgmtChat, text |-> text]>>,
      noticeIn |-> NoticeOptions(strategy),
      delivered |-> delivered, logged |-> logged,
      confirm |-> IF logged THEN o.confirm ELSE "none",
      notice |-> IF confirmed THEN "none" ELSE o.notice,
      completed |-> confirmed,
      raised |-> ~confirmed /\ o.notice # "ok"]

\* try { sendMessage(to, text); logMessage(sent); <confirmation> }
\* catch { <failure notice> }: the block every reply strategy runs.  o holds
\* the outcomes of the four calls.  logMessage throws when the insert fails,
\* and a notice that fails throws out of the handler (raised).  send is the
\* outcome of the send to the user, persisted what logMessage was called
\* with, noticeIn the options of the failure notice.
TryReply(strategy, to, text, o) ==
  LET delivered == o.send = "ok"
      logged == delivered /\ o.log = "ok"
      confirmed == logged /\ o.confirm = "ok"
  IN [strategy |-> strategy, to |-> to, text |-> text,
      send |-> o.send,
      persisted |-> IF delivered THEN <<SentMessage(to, text)>> ELSE << >>,
      noticeIn |-> NoticeOptions(strategy),
      delivered |-> delivered, logged |-> logged,
      confirm |-> IF logged THEN o.confirm ELSE "none",
      notice |-> IF confirmed THEN "none" ELSE o.notice,
      completed |-> confirmed,
      raised |-> ~confirmed /\ o.notice # "ok"]

\* A variant that deletes the record whatever became of the reply: C37
\* fails of it.
LegacyReplyOfDeletes(m, pr, o) ==
  IF m.ok
  THEN [ret |-> ~TryReply("legacy", m.id, m.body, o).raised,
        raised |-> TryReply("legacy", m.id, m.body, o).raised,
        attempts |-> <<TryReply("legacy", m.id, m.body, o)>>,
        pendingReplies |-> MapDelete(pr, m.id)]
  ELSE [ret |-> FALSE, raised |-> FALSE, attempts |-> << >>,
        pendingReplies |-> pr]

\* A variant that replies whether or not the pattern matched: C9 fails of
\* it.
LegacyReplyOfAny(m, pr, o) ==
  [ret |-> TRUE, raised |-> FALSE,
   attempts |-> <<TryReply("legacy", m.id, m.body, o)>>,
   pendingReplies |-> pr]

\* The legacy branch of handleManagementReply (lines 385-409) for a text the
\* pattern matched as m.
LegacyReplyOf(m, pr, o) ==
  LET a == TryReply("legacy", m.id, m.body, o)
  IN IF m.ok
     THEN [ret |-> ~a.raised, raised |-> a.raised, attempts |-> <<a>>,
           pendingReplies |-> IF a.completed THEN MapDelete(pr, m.id) ELSE pr]
     ELSE [ret |-> FALSE, raised |-> FALSE, attempts |-> << >>,
           pendingReplies |-> pr]

LegacyReply(text, pr, o) == LegacyReplyOf(LegacyMatchTelegram(text), pr, o)

\* A variant that looks at the topic before the reply: C6 fails of it.
StrategyUnitFirst(msg) ==
  IF USE_TOPICS /\ Truthy(msg.thread) /\ msg.thread \in DOMAIN topicUsers
  THEN "topic"
  ELSE IF msg.reply # None /\ msg.reply \in DOMAIN forwardedMessageMap
  THEN "reply"
  ELSE "legacy"

\* A variant with no fallback branch: C7 fails of it.
StrategyNoFallback(msg) ==
  IF USE_TOPICS /\ Truthy(msg.thread) /\ msg.reply = None
     /\ msg.thread \in DOMAIN topicUsers
  THEN "topic"
  ELSE IF msg.reply # None /\ msg.reply \in DOMAIN forwardedMessageMap
  THEN "reply"
  ELSE "legacy"

\* The branch of handleManagementReply a message takes: "topic" (typed in a
\* mapped topic, no reply), "reply" (a reply to an indexed message),
\* "fallback" (a reply to an unindexed message, in a mapped topic) or
\* "legacy" (anything else).
Strategy(msg) ==
  LET inTopic == USE_TOPICS /\ Truthy(msg.thread)
  IN IF inTopic /\ msg.reply = None /\ msg.thread \in DOMAIN topicUsers
     THEN "topic"
     ELSE IF msg.reply # None /\ msg.reply \in DOMAIN forwardedMessageMap
     THEN "reply"
     ELSE IF msg.reply # None /\ inTopic /\ msg.thread \in DOMAIN topicUsers
     THEN "fallback"
     ELSE "legacy"

\* handleManagementReply(msg): msg.text, msg.message_thread_id (None: absent)
\* and msg.reply_to_message.message_id (None: no reply).  o and o2 hold the
\* outcomes of the calls of the first and of a second reply block.  The
\* fallback block does not return when it fails: the legacy branch follows.
handleManagementReply(msg, o, o2) ==
  LET text == msg.text
      s == Strategy(msg)
      Done(a) == [ret |-> ~a.raised, raised |-> a.raised, attempts |-> <<a>>,
                  pendingReplies |-> pendingReplies]
      Then(a, l) == IF a.completed \/ a.raised THEN Done(a)
                    ELSE [l EXCEPT !.attempts = <<a>> \o l.attempts]
  IN IF s = "topic"
     THEN Done(TryReply("topic", topicUsers[msg.thread], text, o))
     ELSE IF s = "reply"
     THEN Done(TryReply("reply", forwardedMessageMap[msg.reply], text, o))
     ELSE IF s = "fallback"
     THEN Then(TryReply("fallback", topicUsers[msg.thread], text, o),
               LegacyReply(text, pendingReplies, o2))
     ELSE LegacyReply(text, pendingReplies, o)

\* A variant that links an identity only when it has no topic: C21 fails of
\* it.
LinkTopicIfAbsent(ut, tu, chatId, topicId) ==
  IF chatId \in DOMAIN ut
  THEN [userTopics |-> ut, topicUsers |-> tu]
  ELSE [userTopics |-> MapSet(ut, chatId, topicId),
        topicUsers |-> MapSet(tu, topicId, chatId)]

\* The /link_topic branch of the message handler (lines 534-550): both Maps
\* are set, with no look at what they hold.
LinkTopic(ut, tu, chatId, topicId) ==
  [userTopics |-> MapSet(ut, chatId, topicId),
   topicUsers |-> MapSet(tu, topicId, chatId)]

\* A variant that links topics whether or not topics are on: C22 fails of
\* it.
AdminCommandLinkAlways(text) ==
  IF InfoMatch(text) THEN "info"
  ELSE IF text = <<"/test">> THEN "test"
  ELSE IF text = <<"/topics">> /\ USE_TOPICS THEN "topics"
  ELSE IF LinkMatch(text).ok THEN "link"
  ELSE IF text = <<"/help">> \/ text = <<"help">> THEN "help"
  ELSE "none"

\* The administrative command a text is, in the order the handler tests
\* them (lines 489-592); "none": not a command.
AdminCommand(text) ==
  IF InfoMatch(text) THEN "info"
  ELSE IF text = <<"/test">> THEN "test"
  ELSE IF text = <<"/topics">> /\ USE_TOPICS THEN "topics"
  ELSE IF LinkMatch(text).ok /\ USE_TOPICS THEN "link"
  ELSE IF text = <<"/help">> \/ text = <<"help">> THEN "help"
  ELSE "none"

\* The management branch of bot.on('message') (lines 481-595) after
\* handleManagementReply returned h.  admin is the outcome of the one message
\* a command sends to the management chat.
AfterReply(h, cmd, lm, admin) ==
  [userTopics |-> IF cmd = "link"
                  THEN LinkTopic(userTopics, topicUsers, lm.chatId, lm.topicId).userTopics
                  ELSE userTopics,
   topicUsers |-> IF cmd = "link"
                  THEN LinkTopic(userTopics, topicUsers, lm.chatId, lm.topicId).topicUsers
                  ELSE topicUsers,
   pendingReplies |-> h.pendingReplies,
   attempts |-> h.attempts, ret |-> h.ret, admin |-> cmd, link |-> lm,
   adminSend |-> IF cmd = "none" THEN "none" ELSE admin,
   raised |-> h.raised \/ (cmd # "none" /\ admin # "ok")]

\* The commands are reached when handleManagementReply returned false.
CommandAfter(h, text) == IF h.ret \/ h.raised THEN "none" ELSE AdminCommand(text)

ManagementMessageOf(h, msg, admin) ==
  AfterReply(h, CommandAfter(h, msg.text), LinkMatch(msg.text), admin)

ManagementMessage(msg, o, o2, admin) ==
  ManagementMessageOf(handleManagementReply(msg, o, o2), msg, admin)

----------------------------------------------------------------------------
\* Discord: forwarding an inbound message

\* testManagementChannel(): the probe (two fetches and a send) sets the
\* verified flag to its result.
testManagementChannel(probe) ==
  IF MANAGEMENT_GUILD_ID = None \/ MANAGEMENT_CHANNEL_ID = None
  THEN [ret |-> FALSE, verified |-> managementChannelVerified]
  ELSE [ret |-> probe = "ok", verified |-> probe = "ok"]

\* getOrCreateUserThread(userId, username) on the Maps ut, tu.  o.verify is
\* what fetching the cached thread gives: "ok" (the thread), "null" (nothing)
\* or "throw"; o.prefetch the fetch of guild and channel before the create;
\* o.create and o.welcome the threads.create call and the welcome message.
\* The catch of the creation returns null and sends nothing.
getOrCreateUserThread(ut, tu, userId, o) ==
  LET Same(ret, verify) ==
        [userThreads |-> ut, threadUsers |-> tu, ret |-> ret, calls |-> 0,
         created |-> None, welcome |-> "none", notice |-> "none",
         failure |-> "none", verify |-> verify]
      cached == userId \in DOMAIN ut
      verify == IF cached THEN o.verify ELSE "none"
      \* lines 821-825: only the catch evicts
      ut1 == IF verify = "throw" THEN MapDelete(ut, userId) ELSE ut
      tu1 == IF verify = "throw" THEN MapDelete(tu, ut[userId]) ELSE tu
  IN IF ~USE_THREADS THEN Same(None, "none")
     ELSE IF cached /\ verify = "ok" THEN Same(ut[userId], "ok")
     ELSE IF o.prefetch # "ok"
          THEN [Same(None, verify) EXCEPT !.userThreads = ut1, !.threadUsers = tu1,
                                          !.failure = "fetch"]
     ELSE IF o.create = "ok"
          THEN LET threadId == nextUnitId
               IN [userThreads |-> MapSet(ut1, userId, threadId),
                   threadUsers |-> MapSet(tu1, threadId, userId),
                   ret |-> IF o.welcome = "ok" THEN threadId ELSE None,
                   calls |-> 1, created |-> threadId, welcome |-> o.welcome,
                   notice |-> "none", failure |-> "none", verify |-> verify]
          ELSE [Same(None, verify) EXCEPT !.userThreads = ut1, !.threadUsers = tu1,
                                          !.calls = 1, !.failure = o.create]

\* What a Discord forward that sends nothing leaves.
NotForwardedDiscord(stage, verified) ==
  [verified |-> verified, userThreads |-> userThreads, threadUsers |-> threadUsers,
   pendingReplies |-> pendingRepliesDiscord,
   stage |-> stage, calls |-> 0, created |-> None, welcome |-> "none",
   notice |-> "none", failure |-> "none", verify |-> "none", scope |-> None,
   payload |-> << >>, send |-> "none", fwdId |-> None]

\* A variant that sends to the channel whatever the configuration is: C26
\* fails of it.
forwardToManagementDiscordUnguarded(i, text, o) ==
  [NotForwardedDiscord("sent", TRUE) EXCEPT
     !.pendingReplies =
        MapSet(pendingRepliesDiscord, i,
               [username |-> UserName(i),
                originalMessage |-> TextOrDefault(text), threadId |-> None]),
     !.payload = Labelled(i, TextOrDefault(text)),
     !.send = "ok",
     !.fwdId = nextMsgId]

\* forwardToManagement(message) of the Discord bot (lines 874-929) for a DM of
\* user i.  o.mainfetch is the fetch of the management channel when there is
\* no thread, o.send the send.  Any failure in the try clears the verified
\* flag; the Maps keep what getOrCreateUserThread wrote.
forwardToManagementDiscord(i, text, o) ==
  LET t == testManagementChannel(o.probe)
  IN IF MANAGEMENT_GUILD_ID = None \/ MANAGEMENT_CHANNEL_ID = None
     THEN NotForwardedDiscord("unconfigured", managementChannelVerified)
     ELSE IF ~managementChannelVerified /\ ~t.ret
     THEN NotForwardedDiscord("unverified", t.verified)
     ELSE
       LET messageText == TextOrDefault(text)
           g == IF USE_THREADS
                THEN getOrCreateUserThread(userThreads, threadUsers, i, o)
                ELSE [userThreads |-> userThreads, threadUsers |-> threadUsers,
                      ret |-> None, calls |-> 0, created |-> None,
                      welcome |-> "none", notice |-> "none", failure |-> "none",
                      verify |-> "none"]
           thread == g.ret
           fetched == thread # None \/ o.mainfetch = "ok"
           contextMessage == IF thread # None THEN messageText
                             ELSE Labelled(i, messageText)
           send == IF fetched THEN o.send ELSE "none"
           sent == send = "ok"
       IN [verified |-> sent,
           userThreads |-> g.userThreads,
           threadUsers |-> g.threadUsers,
           pendingReplies |->
             IF sent
             THEN MapSet(pendingRepliesDiscord, i,
                         [username |-> UserName(i), originalMessage |-> messageText,
                          threadId |-> thread])
             ELSE pendingRepliesDiscord,
           stage |-> IF fetched THEN "sent" ELSE "no channel",
           calls |-> g.calls, created |-> g.created, welcome |-> g.welcome,
           notice |-> g.notice, failure |-> g.failure, verify |-> g.verify,
           scope |-> thread,
           payload |-> IF fetched THEN contextMessage ELSE << >>,
           send |-> send,
           fwdId |-> IF sent THEN nextMsgId ELSE None]

\* The DM branch of client.on(MessageCreate) (lines 1133-1143): await
\* logMessage(message), then forwardToManagement(message).
ExternalMessageDiscord(i, text, o) ==
  IF o.log = "ok" THEN forwardToManagementDiscord(i, text, o)
  ELSE NotForwardedDiscord("not logged", managementChannelVerified)

----------------------------------------------------------------------------
\* Discord: a message in the management guild

\* try { user = users.fetch(to); if (user) { user.send(text); logMessage;
\* react } } catch { react; reply }: the block of both Discord strategies.
\* o.fetch is "ok", "null" (no user, and nothing more happens) or "throw".
\* logMessage is called with an object the block builds: the text sent, the
\* bot as author.  The failure notice is message.reply(...).
TryReplyDiscord(strategy, to, text, o) ==
  LET found == o.fetch = "ok"
      delivered == found /\ o.send = "ok"
      logged == delivered /\ o.log = "ok"
      confirmed == logged /\ o.confirm = "ok"
      caught == o.fetch = "throw" \/ (found /\ ~confirmed)
  IN [strategy |-> strategy, to |-> to, text |-> text,
      send |-> IF found THEN o.send ELSE "none",
      persisted |-> IF delivered THEN <<SentMessage(to, text)>> ELSE << >>,
      noticeIn |-> "reply",
      delivered |-> delivered, logged |-> logged,
      confirm |-> IF logged THEN o.confirm ELSE "none",
      notice |-> IF caught THEN o.notice ELSE "none",
      completed |-> confirmed,
      raised |-> caught /\ o.notice # "ok"]

\* message.content.toLowerCase() on the command keywords.
ToLowerCase(text) ==
  [k \in DOMAIN text |-> IF text[k] = "!TEST" THEN "!test" ELSE text[k]]

\* text.startsWith('!')
StartsWithBang(text) ==
  Len(text) >= 1 /\ text[1] \in {"!", "!test", "!TEST", "!help", "!threads"}

\* handleManagementCommands(message): the command run, or "none".
ManagementCommand(text) ==
  LET command == ToLowerCase(text)
  IN IF command = <<"!test">> THEN "test"
     ELSE IF command = <<"!threads">> /\ USE_THREADS THEN "threads"
     ELSE IF command = <<"!help">> THEN "help"
     ELSE "none"

\* handleManagementReply(message) of the Discord bot (lines 934-1010);
\* msg.thread is the id of the thread the message is in (None: the channel is
\* no thread), msg.bot is message.author.bot.  admin is the outcome of the
\* reply a command sends.
handleManagementReplyDiscord(msg, o, admin) ==
  LET text == msg.text
      None0 == [ret |-> FALSE, raised |-> FALSE, attempts |-> << >>,
                admin |-> "none", adminSend |-> "none"]
      Done(a) == [None0 EXCEPT !.ret = ~a.raised, !.raised = a.raised,
                               !.attempts = <<a>>]
      m == LegacyMatchDiscord(text)
  IN IF msg.bot THEN None0
     ELSE IF StartsWithBang(text)
     THEN LET cmd == ManagementCommand(text)
          IN IF cmd = "none" THEN None0
             ELSE [None0 EXCEPT !.ret = admin = "ok", !.raised = admin # "ok",
                                !.admin = cmd, !.adminSend = admin]
     ELSE IF USE_THREADS /\ msg.thread # None /\ msg.thread \in DOMAIN threadUsers
     THEN Done(TryReplyDiscord("thread", threadUsers[msg.thread], text, o))
     ELSE IF m.ok THEN Done(TryReplyDiscord("legacy", m.id, m.body, o))
     ELSE None0

----------------------------------------------------------------------------
\* Inputs

\* /link_topic commands, for every identity and every unit id.
LinkTexts ==
  {<<"/link_topic", " ", D(i), " ", D(t)>> : i \in Identities, t \in 1..MaxTopic}

\* The other administrative commands of the Telegram management chat.
CommandTexts == {<<"/test">>, <<"/help">>, <<"/topics">>, <<"/info", " ", D(1)>>}

\* Legacy-addressed replies: one line, two lines, and no white space after
\* the digits.
LegacyTexts == {<<"r", D(i), " ", "a">> : i \in Identities}
MultiLineLegacyTexts == {<<"r", D(1), " ", "a", "\n", "b">>}
UnspacedTexts == {<<"r", D(1), "a">>}

PlainTexts == {<<"a">>}

\* Texts of the Discord management guild.
DiscordLegacyTexts == {<<"@", D(i), " ", "a">> : i \in Identities}
DiscordMultiLineTexts == {<<"@", D(1), " ", "a", "\n", "b">>}
DiscordCommandTexts == {<<"!test">>, <<"!TEST">>, <<"!threads">>, <<"!", "a">>}

\* Topics a message of the management chat can be typed in, and messages it
\* can be a reply to.
Threads == {None} \cup (1..MaxTopic)
ReplyTargets == {None, OtherMsg} \cup (1..MaxMsg)

\* The outcomes of the calls of one reply block: the calls after a failed one
\* are not made, and the notice is sent only when one failed.
BlockOk == [send |-> "ok", log |-> "ok", confirm |-> "ok", notice |-> "ok"]

BlockOutcomes ==
  {BlockOk}
  \cup {[BlockOk EXCEPT !.send = "fail", !.notice = n] : n \in SendOutcomes}
  \cup {[BlockOk EXCEPT !.log = "fail", !.notice = n] : n \in SendOutcomes}
  \cup {[BlockOk EXCEPT !.confirm = "fail", !.notice = n] : n \in SendOutcomes}

\* The same for the Discord block, which fetches the user first.
BlockOkDiscord == [fetch |-> "ok", send |-> "ok", log |-> "ok", confirm |-> "ok",
                   notice |-> "ok"]

BlockOutcomesDiscord ==
  {BlockOkDiscord, [BlockOkDiscord EXCEPT !.fetch = "null"]}
  \cup {[BlockOkDiscord EXCEPT !.fetch = "throw", !.notice = n] : n \in SendOutcomes}
  \cup {[BlockOkDiscord EXCEPT !.send = "fail", !.notice = n] : n \in SendOutcomes}
  \cup {[BlockOkDiscord EXCEPT !.log = "fail", !.notice = n] : n \in SendOutcomes}
  \cup {[BlockOkDiscord EXCEPT !.confirm = "fail", !.notice = n] : n \in SendOutcomes}

\* The outcomes of the calls of a Telegram forward.
ForwardOk == [log |-> "ok", probe |-> "ok", create |-> "ok", welcome |-> "ok",
              help |-> "ok", send |-> "ok"]

ForwardInputs ==
  [log : SendOutcomes, probe : SendOutcomes, create : CreateOutcomes,
   welcome : CreateOutcomes, help : SendOutcomes, send : ForwardOutcomes]

\* The outcome of a call that is not made is written "ok".
UsedForward(o, r) ==
  /\ (managementChatVerified \/ r.stage = "not logged" => o.probe = "ok")
  /\ (r.calls = 0 => o.create = "ok")
  /\ (r.welcome = "none" => o.welcome = "ok")
  /\ (r.notice = "none" => o.help = "ok")
  /\ (r.send = "none" => o.send = "ok")

\* The outcomes of the calls of a Discord forward.
ForwardOkDiscord ==
  [log |-> "ok", probe |-> "ok", verify |-> "ok", prefetch |-> "ok",
   create |-> "ok", welcome |-> "ok", mainfetch |-> "ok", send |-> "ok"]

ForwardInputsDiscord ==
  [log : SendOutcomes, probe : SendOutcomes, verify : {"ok", "null", "throw"},
   prefetch : SendOutcomes, create : CreateOutcomes, welcome : SendOutcomes,
   mainfetch : SendOutcomes, send : SendOutcomes]

\* Forwards whose calls succeed, whatever the existence check says.
VerifyInputsDiscord ==
  {[ForwardOkDiscord EXCEPT !.verify = v] : v \in {"ok", "null", "throw"}}

UsedForwardDiscord(o, r) ==
  /\ (managementChannelVerified \/ r.stage = "not logged" => o.probe = "ok")
  /\ (r.verify = "none" => o.verify = "ok")
  /\ (r.calls = 0 /\ r.failure # "fetch" => o.prefetch = "ok")
  /\ (r.calls = 0 => o.create = "ok")
  /\ (r.welcome = "none" => o.welcome = "ok")
  /\ (r.stage # "no channel" /\ (r.stage # "sent" \/ r.scope # None)
        => o.mainfetch = "ok")
  /\ (r.send = "none" => o.send = "ok")

----------------------------------------------------------------------------
\* History

\* hist after a forward r of identity i.
HistAfter(i, r) ==
  [hist EXCEPT
     !.permFailed[i] = IF r.created # None THEN FALSE
                       ELSE IF r.failure = "perm" THEN TRUE ELSE @,
     !.forwarded = IF r.fwdId # None THEN MapSet(@, r.fwdId, i) ELSE @,
     !.surface = IF r.fwdId # None THEN MapSet(@, r.fwdId, r.scope) ELSE @,
     !.created[i] = IF r.created # None THEN @ \cup {r.created} ELSE @]

\* A reply is typed where the message it replies to is: the platforms keep a
\* reply in the topic or thread of its target.
SameSurface(thread, reply) ==
  reply \in DOMAIN hist.surface => thread = hist.surface[reply]

\* What is recorded of the state a handler started in.
Before(i) ==
  [unit |-> IF platform = "telegram" THEN MapGet(userTopics, i)
            ELSE MapGet(userThreads, i),
   permFailed |-> hist.permFailed[i],
   verified |-> IF platform = "telegram" THEN managementChatVerified
                ELSE managementChannelVerified]

\* A unit is created only while the platform has ids to give.
WithinBounds(r) == r.created # None => nextUnitId <= MaxTopic

----------------------------------------------------------------------------
\* The catch of a handler

\* A variant without the catch: C28 fails of it.
EscapesUncaught(raised) == raised

\* bot.on('message', async (msg) => { try {...} catch (error) {
\* console.error(...) } }) (lines 469-470, 608-610), and the same in
\* client.on(MessageCreate) (lines 1117-1118, 1169-1171): whatever is raised in
\* the body of a handler ends in its catch, which logs and raises nothing.
\* The value tells whether an error leaves the handler.
Escapes(raised) == FALSE

----------------------------------------------------------------------------
\* Telegram: the handlers

\* setTimeout(testManagementChat, 2000) at startup (lines 696-703).
TelegramStartupProbe ==
  /\ platform = "telegram"
  /\ startupTimer
  /\ \E probe \in SendOutcomes :
       /\ managementChatVerified' = testManagementChat(probe).verified
       /\ last' = [op |-> "probe", probe |-> probe]
  /\ startupTimer' = FALSE
  /\ UNCHANGED <<awaiting, messages, platform, MANAGEMENT_CHAT_ID, USE_TOPICS, userTopics, topicUsers,
                 pendingReplies, forwardedMessageMap, discordVars, nextUnitId,
                 nextMsgId, hist>>

\* A variant that takes the chat of the message for the management chat:
\* C27 fails of it.
TelegramSetupRegisters ==
  /\ platform = "telegram"
  /\ MANAGEMENT_CHAT_ID = None
  /\ \E chat \in Identities \cup {MgmtChat}, send \in SendOutcomes :
       /\ MANAGEMENT_CHAT_ID' = chat
       /\ last' = [op |-> "setup", chat |-> chat, send |-> send,
                   responses |-> 1, again |-> FALSE,
                   raised |-> FALSE, escaped |-> FALSE]
  /\ UNCHANGED <<awaiting, messages, platform, USE_TOPICS, managementChatVerified,
                 userTopics, topicUsers, pendingReplies, forwardedMessageMap,
                 discordVars, startupTimer, nextUnitId, nextMsgId, hist>>

\* bot.on('message'), setup mode (lines 475-479): no management chat is set
\* and the message is no bot's.  setupManagementChatId sends the setup text
\* to the chat the message came from and writes nothing.  A text that holds
\* "/start" is a match of bot.onText(/\/start/) too (lines 616-621), which
\* calls setupManagementChatId again: responses counts the setup texts sent
\* for the message, and again tells whether the message handled before this
\* one was taken for a setup request as well.
TelegramSetup ==
  /\ platform = "telegram"
  /\ MANAGEMENT_CHAT_ID = None
  /\ \E chat \in Identities \cup {MgmtChat}, send \in SendOutcomes,
        start \in BOOLEAN :
       last' = [op |-> "setup", chat |-> chat, send |-> send,
                responses |-> IF start THEN 2 ELSE 1,
                again |-> last.op = "setup",
                raised |-> FALSE, escaped |-> Escapes(FALSE)]
  /\ UNCHANGED <<awaiting, messages, platform, telegramVars, discordVars, startupTimer, nextUnitId,
                 nextMsgId, hist>>

\* bot.on('message'), a message of an external user (lines 597-606):
\* logMessage, then forwardToManagement.  logMessage throws when the insert
\* fails, and the handler's catch ends the handler.  The texts and the
\* outcomes of the platform calls are drawn from the sets given.
TelegramExternal(texts, outcomes) ==
  /\ platform = "telegram"
  /\ MANAGEMENT_CHAT_ID # None
  /\ nextMsgId <= MaxMsg
  /\ \E i \in Identities, text \in texts, o \in outcomes :
       LET r == ExternalMessage(i, text, o)
       IN /\ UsedForward(o, r)
          /\ WithinBounds(r)
          /\ managementChatVerified' = r.verified
          /\ userTopics' = r.userTopics
          /\ topicUsers' = r.topicUsers
          /\ pendingReplies' = r.pendingReplies
          /\ forwardedMessageMap' = r.forwardedMessageMap
          /\ nextUnitId' = IF r.created # None THEN nextUnitId + 1 ELSE nextUnitId
          /\ nextMsgId' = nextMsgId + 1
          /\ hist' = HistAfter(i, r)
          /\ last' = [op |-> "inbound", from |-> i, text |-> text, log |-> o.log,
                      persisted |-> <<UserMessage(i, text)>>,
                      before |-> Before(i), fwd |-> r,
                      raised |-> o.log # "ok", escaped |-> Escapes(o.log # "ok")]
  /\ UNCHANGED <<awaiting, messages, platform, MANAGEMENT_CHAT_ID, USE_TOPICS, discordVars, startupTimer>>

\* bot.on('message'), a message typed in the management chat by someone who
\* is no bot (lines 481-595).  The message is drawn from texts, threads and
\* replies, the outcomes of the calls of a reply block from blocks and the
\* outcome of the message a command sends from admins.
TelegramManagement(texts, threads, replies, blocks, admins) ==
  /\ platform = "telegram"
  /\ MANAGEMENT_CHAT_ID # None
  /\ \E text \in texts, thread \in threads, reply \in replies :
     \E msg \in {[text |-> text, thread |-> thread, reply |-> reply]} :
     \E o \in (IF SameSurface(thread, reply) THEN blocks ELSE {}) :
     \E o2 \in (IF Strategy(msg) = "fallback" THEN blocks ELSE {BlockOk}) :
     \E admin \in admins :
     \E r \in {ManagementMessage(msg, o, o2, admin)} :
          /\ (r.attempts = << >> => o = BlockOk)
          /\ (Len(r.attempts) < 2 => o2 = BlockOk)
          /\ (r.admin = "none" => admin = "ok")
          /\ userTopics' = r.userTopics
          /\ topicUsers' = r.topicUsers
          /\ pendingReplies' = r.pendingReplies
          /\ hist' = IF r.admin = "link"
                     THEN [hist EXCEPT !.permFailed[r.link.chatId] = FALSE]
                     ELSE hist
          /\ last' = [op |-> "operator", msg |-> msg,
                      unitTarget |-> MapGet(topicUsers, thread),
                      unitOf |-> [i \in Identities |-> MapGet(userTopics, i)],
                      indexTarget |-> MapGet(forwardedMessageMap, reply),
                      sender |-> MapGet(hist.forwarded, reply),
                      attempts |-> r.attempts, ret |-> r.ret, admin |-> r.admin,
                      adminSend |-> r.adminSend, raised |-> r.raised,
                      escaped |-> Escapes(r.raised)]
  /\ UNCHANGED <<awaiting, messages, platform, MANAGEMENT_CHAT_ID, USE_TOPICS, managementChatVerified,
                 forwardedMessageMap, discordVars, startupTimer, nextUnitId,
                 nextMsgId>>

----------------------------------------------------------------------------
\* Discord: the handlers

\* setTimeout(testManagementChannel, 2000) once the client is ready (lines
\* 1101-1107).
DiscordStartupProbe ==
  /\ platform = "discord"
  /\ startupTimer
  /\ \E probe \in SendOutcomes :
       /\ managementChannelVerified' = testManagementChannel(probe).verified
       /\ last' = [op |-> "probe", probe |-> probe]
  /\ startupTimer' = FALSE
  /\ UNCHANGED <<awaiting, messages, platform, telegramVars, MANAGEMENT_CHANNEL_ID, USE_THREADS,
                 userThreads, threadUsers, pendingRepliesDiscord, nextUnitId,
                 nextMsgId, hist>>

\* client.on(MessageCreate), a DM of a user who is no bot (lines 1133-1143):
\* logMessage, then forwardToManagement.
DiscordExternal(texts, outcomes) ==
  /\ platform = "discord"
  /\ nextMsgId <= MaxMsg
  /\ \E i \in Identities, text \in texts, o \in outcomes :
       LET r == ExternalMessageDiscord(i, text, o)
       IN /\ UsedForwardDiscord(o, r)
          /\ WithinBounds(r)
          /\ managementChannelVerified' = r.verified
          /\ userThreads' = r.userThreads
          /\ threadUsers' = r.threadUsers
          /\ pendingRepliesDiscord' = r.pendingReplies
          /\ nextUnitId' = IF r.created # None THEN nextUnitId + 1 ELSE nextUnitId
          /\ nextMsgId' = nextMsgId + 1
          /\ hist' = HistAfter(i, r)
          /\ last' = [op |-> "inbound", from |-> i, text |-> text, log |-> o.log,
                      persisted |-> <<UserMessage(i, text)>>,
                      before |-> Before(i), fwd |-> r,
                      raised |-> o.log # "ok", escaped |-> Escapes(o.log # "ok")]
  /\ UNCHANGED <<awaiting, messages, platform, telegramVars, MANAGEMENT_CHANNEL_ID, USE_THREADS,
                 startupTimer>>

\* client.on(MessageCreate), a message in the management guild (lines
\* 1127-1131): handleManagementReply and nothing else.
DiscordManagement(texts, threads, replies, blocks, admins) ==
  /\ platform = "discord"
  /\ MANAGEMENT_GUILD_ID # None
  /\ \E text \in texts, thread \in threads, reply \in replies :
     \E msg \in {[text |-> text, thread |-> thread, reply |-> reply, bot |-> FALSE]} :
     \E o \in (IF SameSurface(thread, reply) THEN blocks ELSE {}), admin \in admins :
     \E r \in {handleManagementReplyDiscord(msg, o, admin)} :
          /\ (r.attempts = << >> => o = BlockOkDiscord)
          /\ (r.admin = "none" => admin = "ok")
          /\ last' = [op |-> "operator", msg |-> msg,
                      unitTarget |-> MapGet(threadUsers, thread),
                      unitOf |-> [i \in Identities |-> MapGet(userThreads, i)],
                      indexTarget |-> None,
                      sender |-> MapGet(hist.forwarded, reply),
                      attempts |-> r.attempts, ret |-> r.ret, admin |-> r.admin,
                      adminSend |-> r.adminSend, raised |-> r.raised,
                      escaped |-> Escapes(r.raised)]
  /\ UNCHANGED <<awaiting, messages, platform, telegramVars, discordVars, startupTimer, nextUnitId,
                 nextMsgId, hist>>

----------------------------------------------------------------------------
\* Specifications

\* Linking: inbound messages whose platform calls succeed (but for the
\* existence check of a thread), and operators who link topics and type
\* plain text anywhere, in reply to anything.
NextLink ==
  \/ TelegramStartupProbe
  \/ TelegramExternal(PlainTexts, {ForwardOk})
  \/ TelegramManagement(LinkTexts, {None}, {None}, {BlockOk}, {"ok"})
  \/ TelegramManagement(PlainTexts, Threads, ReplyTargets, {BlockOk}, {"ok"})
  \/ DiscordStartupProbe
  \/ DiscordExternal(PlainTexts, VerifyInputsDiscord)
  \/ DiscordManagement(PlainTexts, Threads, ReplyTargets, {BlockOkDiscord}, {"ok"})

SpecLink == Init /\ [][NextLink]_vars

\* Creating units: inbound messages with every outcome of the platform
\* calls, and operators who link topics.
NextCreate ==
  \/ TelegramStartupProbe
  \/ TelegramSetup
  \/ TelegramExternal(PlainTexts, ForwardInputs)
  \/ TelegramManagement(LinkTexts, {None}, {None}, {BlockOk}, {"ok"})
  \/ DiscordStartupProbe
  \/ DiscordExternal(PlainTexts, ForwardInputsDiscord)

SpecCreate == Init /\ [][NextCreate]_vars

\* Replying: inbound messages whose platform calls succeed, and operators
\* who type plain text anywhere in reply to anything, addressed text
\* anywhere, and commands.
NextReply ==
  \/ TelegramStartupProbe
  \/ TelegramExternal(PlainTexts, {ForwardOk})
  \/ TelegramManagement(PlainTexts, Threads, ReplyTargets, BlockOutcomes, {"ok"})
  \/ TelegramManagement(LegacyTexts \cup MultiLineLegacyTexts \cup UnspacedTexts,
                        Threads, {None}, BlockOutcomes, {"ok"})
  \/ TelegramManagement(CommandTexts, {None}, {None}, {BlockOk}, SendOutcomes)
  \/ DiscordStartupProbe
  \/ DiscordExternal(PlainTexts, {ForwardOkDiscord})
  \/ DiscordManagement(PlainTexts, Threads, ReplyTargets, BlockOutcomesDiscord, {"ok"})
  \/ DiscordManagement(DiscordLegacyTexts \cup DiscordMultiLineTexts, Threads, {None},
                       BlockOutcomesDiscord, {"ok"})
  \/ DiscordManagement(DiscordCommandTexts, {None}, {None}, {BlockOkDiscord},
                       SendOutcomes)

SpecReply == Init /\ [][NextReply]_vars

\* Forwards that succeed and forwards one call of which fails.
FailingForwards ==
  {ForwardOk,
   [ForwardOk EXCEPT !.create = "perm"],
   [ForwardOk EXCEPT !.send = "fail"]}

\* /link_topic commands for one identity and every unit id.
RelinkTexts == {<<"/link_topic", " ", D(1), " ", D(t)>> : t \in 1..MaxTopic}

\* Replies that are delivered and replies whose send fails.
FailingReplies == {BlockOk, [BlockOk EXCEPT !.send = "fail"]}

\* The forwarded-message index, which the Telegram bot keeps: forwards that
\* succeed and fail, and operators who link topics, reply to anything from
\* anywhere and address an identity, with every outcome of the reply.
InitIndex == Init /\ platform = "telegram"

NextIndex ==
  \/ TelegramStartupProbe
  \/ TelegramExternal(PlainTexts, FailingForwards)
  \/ TelegramManagement(RelinkTexts, {None}, {None}, {BlockOk}, {"ok"})
  \/ TelegramManagement(PlainTexts, Threads, ReplyTargets, FailingReplies, {"ok"})
  \/ TelegramManagement(LegacyTexts, {None}, {None}, {BlockOk}, {"ok"})

SpecIndex == InitIndex /\ [][NextIndex]_vars

----------------------------------------------------------------------------
\* Properties

\* Units are on for the platform that runs.
UnitMode == IF platform = "telegram" THEN USE_TOPICS ELSE USE_THREADS

\* The two tables of the platform that runs.
unitOf == IF platform = "telegram" THEN userTopics ELSE userThreads
identityOf == IF platform = "telegram" THEN topicUsers ELSE threadUsers

\* C1: mapping consistency.  After every operation, for every identity I
\* whose identity->unit entry is U, the unit->identity table maps U to I.
\* /link_topic writes both tables with no look at what they hold: linking a
\* second identity to a unit leaves the first identity's entry pointing at a
\* unit that routes to the second.
C1_MappingConsistency ==
  \A i \in DOMAIN unitOf : MapGet(identityOf, unitOf[i]) = i

\* C2: the reverse lookup agrees with the forward lookup.  In every state,
\* every unit U of the unit->identity table with value I has
\* identity->unit[I] = U.  /link_topic of a linked identity to another unit
\* leaves the old unit's reverse entry behind.
C2_ReverseAgrees ==
  \A u \in DOMAIN identityOf : MapGet(unitOf, identityOf[u]) = u

\* C5: unit-mode direct typing.  With unit mode on, when the identity->unit
\* table maps I to T, an operator message with no reply-to typed in T is
\* sent, with its full text, to I.
C5_DirectTyping ==
  (last.op = "operator" /\ UnitMode /\ last.msg.reply = None
     /\ last.msg.thread # None)
  => \A i \in Identities :
       last.unitOf[i] = last.msg.thread
       => /\ last.attempts # << >>
          /\ last.attempts[1].to = i
          /\ last.attempts[1].text = last.msg.text

\* The last handler was an inbound message that got as far as resolving the
\* sender's unit, and no call it made to get a unit failed.
ResolvedUnit ==
  /\ last.op = "inbound"
  /\ UnitMode
  /\ last.fwd.stage \in {"sent", "no channel"}
  /\ last.fwd.failure = "none"

\* C3 as stated: at most one unit per identity.  With unit mode on and
\* creation succeeding, the first message of an identity calls create-unit
\* once, and a message of an identity that has a unit calls it not at all and
\* is forwarded into that unit.
C3_OneUnit ==
  ResolvedUnit
  => IF last.before.unit = None
     THEN /\ last.fwd.calls = 1
          /\ unitOf[last.from] = last.fwd.created
     ELSE /\ last.fwd.calls = 0
          /\ unitOf[last.from] = last.before.unit
          /\ (last.fwd.send = "ok" => last.fwd.scope = last.before.unit)

\* The platform's existence check found the unit of the sender, where the
\* code makes one (Discord).
UnitFound == platform = "discord" => last.fwd.verify = "ok"

\* C3, amended: the same, as long as the existence check finds the unit.
C3_OneUnitWhileFound ==
  ResolvedUnit
  => IF last.before.unit = None
     THEN /\ last.fwd.calls = 1
          /\ unitOf[last.from] = last.fwd.created
     ELSE UnitFound
          => /\ last.fwd.calls = 0
             /\ unitOf[last.from] = last.before.unit
             /\ (last.fwd.send = "ok" => last.fwd.scope = last.before.unit)

\* A later message of an identity was forwarded into the unit it had.
C3_Reused ==
  /\ ResolvedUnit
  /\ last.before.unit # None
  /\ UnitFound
  /\ last.fwd.send = "ok"
  /\ last.fwd.scope = last.before.unit

\* C10 as stated: no retry.  After a create-unit call for I failed for want
\* of permission, an inbound message of I makes no create-unit call and I
\* has no unit, until an operator links one.
C10_NoRetry ==
  (last.op = "inbound" /\ last.before.permFailed)
  => /\ last.fwd.calls = 0
     /\ last.from \notin DOMAIN unitOf

\* C10, amended: the failure is not remembered.  After a create-unit call
\* for I failed for want of permission, every inbound message of I that gets
\* as far as resolving the unit while I has none calls create-unit again,
\* once, and a call that succeeds gives I its unit with no operator's link.
C10_RetriesEachMessage ==
  (/\ last.op = "inbound"
   /\ last.before.permFailed
   /\ last.before.unit = None
   /\ last.fwd.stage \in {"sent", "no channel"}
   /\ last.fwd.failure # "fetch")
  => /\ last.fwd.calls = 1
     /\ (last.fwd.created # None => unitOf[last.from] = last.fwd.created)
     /\ (last.fwd.created = None => last.from \notin DOMAIN unitOf)

\* A create-unit call was made again after one had failed for want of
\* permission.
C10_Retried ==
  /\ last.op = "inbound"
  /\ last.before.permFailed
  /\ last.before.unit = None
  /\ last.fwd.calls = 1

\* The last handler was a message of the operator that is a reply to a
\* message the bot forwarded for an identity.
ReplyToForwarded ==
  /\ last.op = "operator"
  /\ last.msg.reply # None
  /\ last.sender # None

\* C4: reply resolution by index.  An operator message that is a reply to
\* the forwarded message of identity I is sent to I, on both platforms, in
\* either unit mode, wherever it is typed.
C4_ReplyByIndex ==
  ReplyToForwarded
  => /\ last.attempts # << >>
     /\ last.attempts[1].to = last.sender

\* C6: reply linkage overrides the unit.  An operator message typed in the
\* unit of identity B that is a reply to the forwarded message of identity
\* A # B is sent to A and not to B.
C6_ReplyOverridesUnit ==
  (/\ ReplyToForwarded
   /\ UnitMode
   /\ last.unitTarget # None
   /\ last.unitTarget # last.sender)
  => /\ last.attempts # << >>
     /\ \A k \in DOMAIN last.attempts : last.attempts[k].to = last.sender

\* A reply typed in the unit of B reached A, whose message it replied to.
C6_Overrode ==
  /\ ReplyToForwarded
  /\ UnitMode
  /\ last.unitTarget # None
  /\ last.unitTarget # last.sender
  /\ last.attempts # << >>
  /\ last.attempts[1].to = last.sender
  /\ last.attempts[1].delivered

\* The last handler was a message of the Telegram operator typed in a topic
\* that maps to an identity, in reply to a message that is not in the
\* forwarded-message index.
ReplyToUnindexed ==
  /\ last.op = "operator"
  /\ platform = "telegram"
  /\ UnitMode
  /\ last.msg.reply # None
  /\ last.indexTarget = None
  /\ last.unitTarget # None

\* C7: strategy 3.  An operator message that is a reply to a message not in
\* the forwarded-message index, typed in a unit that maps to identity I, is
\* sent to I.  The index and the strategy are the Telegram bot's.
C7_Fallback ==
  ReplyToUnindexed
  => /\ last.attempts # << >>
     /\ last.attempts[1].strategy = "fallback"
     /\ last.attempts[1].to = last.unitTarget
     /\ last.attempts[1].text = last.msg.text

\* The fallback delivered a reply.
C7_FellBack ==
  /\ ReplyToUnindexed
  /\ last.attempts[1].strategy = "fallback"
  /\ last.attempts[1].delivered

\* <sigil><digits><white space><body>: the digits' identity and the body.
AddressedForm(text, sigil) ==
  IF Len(text) < 2 \/ text[1] # sigil THEN NoMatch
  ELSE LET d == DigitRun(text, 2)
           w == SpaceRun(text, 2 + d)
       IN IF d >= 1 /\ w >= 1 /\ 2 + d + w <= Len(text)
          THEN [ok |-> TRUE, id |-> KeyOf(SubSeq(text, 2, 1 + d)),
                body |-> SubSeq(text, 2 + d + w, Len(text))]
          ELSE NoMatch

Sigil == IF platform = "telegram" THEN "r" ELSE "@"

\* The message of the operator is typed in no unit that maps to an identity.
NoUnitContext == ~UnitMode \/ last.unitTarget = None

\* C8: legacy addressing.  An operator message with no reply-to and no
\* matching unit whose text is <sigil><digits><white space><body> is sent to
\* the identity the digits name, and the text sent is the body.
C8_LegacyAddressing ==
  (/\ last.op = "operator"
   /\ last.msg.reply = None
   /\ NoUnitContext
   /\ AddressedForm(last.msg.text, Sigil).ok)
  => /\ last.attempts # << >>
     /\ last.attempts[1].to = AddressedForm(last.msg.text, Sigil).id
     /\ last.attempts[1].text = AddressedForm(last.msg.text, Sigil).body

\* The pattern of the legacy branch matches the text.
LegacyMatches ==
  IF platform = "telegram" THEN LegacyMatchTelegram(last.msg.text).ok
  ELSE LegacyMatchDiscord(last.msg.text).ok

\* The message of the operator has no target: it is in no known unit, no
\* reply to an indexed message, and the legacy pattern does not match it.
NoTarget ==
  /\ last.op = "operator"
  /\ NoUnitContext
  /\ last.indexTarget = None
  /\ ~LegacyMatches

\* C9: no target.  An operator message that matches none of the strategies
\* is sent to no external identity.
C9_NoTargetNoSend == NoTarget => last.attempts = << >>

\* A message with no target was run as a command; another was ignored.
C9_Command == NoTarget /\ last.admin # "none" /\ last.attempts = << >>

\* A create-unit call of the last inbound message failed for want of
\* permission or of a capability of the platform.
CreationDenied ==
  /\ last.op = "inbound"
  /\ UnitMode
  /\ last.fwd.failure = "perm"

\* C11: instructional notice on creation failure.  Whenever the creation of
\* a unit fails for want of permission or capability, an instructional
\* notice is sent to the shared surface, on both platforms, and the inbound
\* message is then forwarded to the shared surface with the label prefix.
\* The catch of getOrCreateUserThread writes to the console and sends
\* nothing.
C11_NoticeOnFailure ==
  CreationDenied
  => /\ last.fwd.notice # "none"
     /\ (last.fwd.stage = "sent"
           => /\ last.fwd.scope = None
              /\ last.fwd.payload = Labelled(last.from, TextOrDefault(last.text)))

\* The last inbound message came from an identity that had a unit, and the
\* existence check reported the unit missing: it threw, or it gave nothing.
\* The Discord bot makes the check; the Telegram bot makes none.
ReportedMissing ==
  /\ last.op = "inbound"
  /\ platform = "discord"
  /\ last.before.unit # None
  /\ last.fwd.verify \in {"null", "throw"}

\* C12: stale-unit eviction.  When the platform reports the unit U of
\* identity I missing, then after the unit was resolved neither table
\* mentions U and, if the creation succeeded, I is mapped both ways to the
\* new unit; for an error and for an empty result alike.  Only the catch
\* evicts: after an empty result U stays in the tables.
C12_StaleEviction ==
  ReportedMissing
  => /\ last.before.unit \notin DOMAIN identityOf
     /\ MapGet(unitOf, last.from) # last.before.unit
     /\ (last.fwd.created # None
           => /\ MapGet(unitOf, last.from) = last.fwd.created
              /\ MapGet(identityOf, last.fwd.created) = last.from)

\* A platform call made while forwarding the last inbound message failed:
\* the probe, the fetch of the channel, the creation of the unit, the welcome
\* message or the send.
ForwardFailed ==
  /\ last.op = "inbound"
  /\ \/ last.fwd.stage \in {"unverified", "no channel"}
     \/ last.fwd.failure # "none"
     \/ last.fwd.welcome \notin {"ok", "none"}
     \/ last.fwd.send \notin {"ok", "none"}

\* C13: logging independence.  For every inbound message of an external
\* user, if a platform call made while forwarding it fails, the persistence
\* collaborator has received the record of the message: logMessage was called
\* with the message, and returned, before the forward began.
C13_LoggedDespiteFailure ==
  ForwardFailed
  => /\ last.log = "ok"
     /\ last.persisted = <<UserMessage(last.from, last.text)>>

\* The send of a forward failed, and the message had been logged.
C13_SendFailedLogged ==
  /\ ForwardFailed
  /\ last.fwd.send = "fail"
  /\ last.log = "ok"

\* C14: logging and routing are independent in both directions.  A failure
\* of the persistence call for an inbound message does not keep the message
\* from being forwarded.  logMessage throws what the insert gave, the handler
\* awaits it before forwardToManagement, and its catch ends the handler.
C14_ForwardedDespiteLogFailure ==
  (last.op = "inbound" /\ last.log # "ok")
  => last.fwd.stage # "not logged"

\* The ForwardRecords and the forwarded-message index of the platform that
\* runs.  The Discord bot keeps no index.
ForwardRecords ==
  IF platform = "telegram" THEN pendingReplies ELSE pendingRepliesDiscord

ForwardIndex ==
  IF platform = "telegram" THEN forwardedMessageMap ELSE EmptyMap

\* The last forward left the records and the index as they were and sent
\* nothing that arrived.
ForwardDropped ==
  /\ last'.fwd.fwdId = None
  /\ ForwardRecords' = ForwardRecords
  /\ ForwardIndex' = ForwardIndex

\* C15 as stated: forwardInbound never raises.  For every failure of a
\* platform call made while forwarding (probe, unit creation, welcome, send)
\* the forward is dropped and the sender's ForwardRecord and the index are
\* left as they were.
C15_DroppedOnAnyFailure ==
  [][ForwardFailed' => ForwardDropped]_vars

\* The forward of the last inbound message ended before it sent the message
\* or at a send that failed: the probe, the fetch of the channel or the send
\* failed.
SendFailed ==
  /\ last.op = "inbound"
  /\ \/ last.fwd.stage \in {"unverified", "no channel"}
     \/ last.fwd.send \notin {"ok", "none"}

\* No unit came of the last inbound message though one was asked for: the
\* creation or the welcome message failed.
UnitFailed ==
  /\ last.op = "inbound"
  /\ last.fwd.stage = "sent"
  /\ (last.fwd.failure # "none" \/ last.fwd.welcome \notin {"ok", "none"})

\* C15, amended: the handler of an inbound message ends normally whatever
\* call fails.  When the probe, the fetch of the channel or the send fails,
\* the forward is dropped and the records and the index are left as they
\* were.  When the creation of the unit or its welcome message fails, the
\* forward is not dropped: the message goes to the shared surface under its
\* label, and if that send succeeds the sender's record is written over.
C15_DroppedOnSendFailure ==
  [][/\ SendFailed' => ForwardDropped
     /\ UnitFailed'
          => /\ last'.fwd.scope = None
             /\ last'.fwd.payload
                  = Labelled(last'.from, TextOrDefault(last'.text))
             /\ (last'.fwd.send = "ok"
                   => /\ last'.fwd.fwdId # None
                      /\ last'.from \in DOMAIN ForwardRecords')]_vars

\* A send failed for an identity that had a record, and the record is kept.
C15_Dropped ==
  /\ SendFailed
  /\ last.fwd.send = "fail"
  /\ last.from \in DOMAIN ForwardRecords

\* The reply blocks of the last operator message whose send to the user
\* failed.
FailedSends ==
  IF last.op = "operator"
  THEN {k \in DOMAIN last.attempts : last.attempts[k].send = "fail"}
  ELSE {}

\* The failure notice of reply block a goes where the operator typed msg: it is
\* a reply to the operator's message, or it names the topic of the message,
\* or it names no topic and the message was typed in none.
NoticeInSurface(a, msg) ==
  \/ a.noticeIn = "reply"
  \/ a.noticeIn = "thread" /\ msg.thread # None
  \/ a.noticeIn = "none" /\ msg.thread = None

\* The mapping tables of the platform that runs.
MappingTables ==
  IF platform = "telegram"
  THEN <<userTopics, topicUsers, pendingReplies, forwardedMessageMap>>
  ELSE <<userThreads, threadUsers, pendingRepliesDiscord>>

\* C16: operator reply send failure.  When the send to the resolved identity
\* fails, a failure notice is posted into the surface the operator used, the
\* send to that identity is not attempted again, and no mapping table is
\* changed.  The notice of the legacy branch of the Telegram bot names no
\* topic: it goes to the main chat wherever the operator typed.
C16_SendFailure ==
  [][\A k \in FailedSends' :
       /\ last'.attempts[k].notice # "none"
       /\ NoticeInSurface(last'.attempts[k], last'.msg)
       /\ \A j \in DOMAIN last'.attempts :
            j # k => last'.attempts[j].to # last'.attempts[k].to
       /\ MappingTables' = MappingTables]_vars

\* The ForwardRecord of identity i: the display name, the text, the id of
\* the forwarded message and the owning unit.  The record of the Discord bot
\* (lines 915-920) holds no message id.
ForwardRecordOf(i) ==
  IF platform = "telegram"
  THEN [name |-> pendingReplies[i].username,
        text |-> pendingReplies[i].originalMessage,
        forwarded |-> pendingReplies[i].forwardedMessageId,
        unit |-> pendingReplies[i].topicId]
  ELSE [name |-> pendingRepliesDiscord[i].username,
        text |-> pendingRepliesDiscord[i].originalMessage,
        forwarded |-> None,
        unit |-> pendingRepliesDiscord[i].threadId]

\* C17: after every successful forward of message M of identity I that
\* produced the forwarded message F, there is one ForwardRecord for I, it
\* holds M's display name, M's text and F, and the index maps F to I.  The
\* Discord bot records no F and keeps no index.
C17_RecordAndIndex ==
  (last.op = "inbound" /\ last.fwd.send = "ok")
  => /\ last.from \in DOMAIN ForwardRecords
     /\ ForwardRecordOf(last.from).name = UserName(last.from)
     /\ ForwardRecordOf(last.from).text = last.text
     /\ ForwardRecordOf(last.from).forwarded = last.fwd.fwdId
     /\ MapGet(ForwardIndex, last.fwd.fwdId) = last.from

\* C18: the forwarded-message index is never pruned.  Once the index maps
\* the forwarded message F to identity I it maps F to I in every later
\* state, after any forwards, replies (the successful ones too), links and
\* failures, so that a reply to an older forwarded message is still sent
\* to I.
C18_IndexNeverPruned ==
  [][/\ \A f \in DOMAIN forwardedMessageMap :
          /\ f \in DOMAIN forwardedMessageMap'
          /\ forwardedMessageMap'[f] = forwardedMessageMap[f]
     /\ (/\ last'.op = "operator"
         /\ last'.msg.reply \in DOMAIN forwardedMessageMap)
        => /\ last'.attempts # << >>
           /\ last'.attempts[1].to = forwardedMessageMap[last'.msg.reply]
           /\ last'.attempts[1].to = last'.sender]_vars

\* A reply to the older of two forwarded messages reached its sender.
C18_DelayedReply ==
  /\ last.op = "operator"
  /\ last.msg.reply = 1
  /\ DOMAIN forwardedMessageMap = {1, 2}
  /\ last.attempts # << >>
  /\ last.attempts[1].delivered
  /\ last.attempts[1].to = forwardedMessageMap[1]

\* C19: ForwardRecord unit liveness.  In every reachable state, if the
\* ForwardRecord of identity I has an owning unit, that unit is the unit the
\* identity->unit table maps I to.  /link_topic writes the two tables and
\* leaves the record of the identity as it is.
C19_RecordUnitLive ==
  \A i \in DOMAIN ForwardRecords :
    ForwardRecordOf(i).unit # None
    => MapGet(unitOf, i) = ForwardRecordOf(i).unit

\* C20: no self-referential routing.  Handling a message that comes from
\* the management surface creates and overwrites no ForwardRecord, adds no
\* entry to the forwarded-message index, forwards nothing, and passes to
\* persistence nothing but the copy the bot sent to the external user.
C20_NoSelfRouting ==
  [][last'.op = "operator"
     => /\ \A i \in DOMAIN ForwardRecords' :
             /\ i \in DOMAIN ForwardRecords
             /\ ForwardRecords'[i] = ForwardRecords[i]
        /\ ForwardIndex' = ForwardIndex
        /\ nextMsgId' = nextMsgId
        /\ hist'.forwarded = hist.forwarded
        /\ \A k \in DOMAIN last'.attempts :
             \A j \in DOMAIN last'.attempts[k].persisted :
               /\ last'.attempts[k].delivered
               /\ last'.attempts[k].persisted[j]
                    = SentMessage(last'.attempts[k].to, last'.attempts[k].text)]_vars

\* A reply was delivered to an identity that has a ForwardRecord, and the
\* copy the bot sent was logged.
C20_ReplyLogged ==
  /\ last.op = "operator"
  /\ last.attempts # << >>
  /\ last.attempts[1].delivered
  /\ last.attempts[1].persisted
       = <<SentMessage(last.attempts[1].to, last.attempts[1].text)>>
  /\ last.attempts[1].to \in DOMAIN ForwardRecords

\* The last handler ran the /link_topic command.
Linked == last.op = "operator" /\ last.admin = "link"

C22_UnitModeOff ==
  ~UnitMode
  => /\ unitOf = EmptyMap
     /\ identityOf = EmptyMap
     /\ last.op = "inbound"
        => /\ last.fwd.calls = 0
           /\ last.fwd.created = None
           /\ last.fwd.welcome = "none"
           /\ last.fwd.notice = "none"
           /\ last.fwd.scope = None
           /\ (last.fwd.send # "none"
                 => last.fwd.payload
                      = Labelled(last.from, TextOrDefault(last.text)))

\* With topics off an operator typed a link command, and it did nothing.
C22_LinkIgnored ==
  /\ ~UnitMode
  /\ last.op = "operator"
  /\ LinkMatch(last.msg.text).ok
  /\ last.admin = "none"
  /\ unitOf = EmptyMap

\* Resolving the unit of the sender of the last inbound message gave a unit:
\* the one the sender had (on Discord, if the existence check found it), or
\* one just created whose welcome message was sent.
ResolveGaveUnit ==
  \/ /\ last.before.unit # None
     /\ UnitFound
  \/ /\ last.fwd.created # None
     /\ last.fwd.welcome = "ok"

----------------------------------------------------------------------------
\* Handlers that interleave
\*
\* bot.on('message', async (msg) => {...}): the emitter does not wait for the
\* promise of the handler, so the handler of the next message starts while
\* this one is suspended at an await.  The suspension modelled is the one at
\* `await bot.createForumTopic(...)` (line 140): the handler has logged the
\* message, found the management chat verified and seen no topic of the
\* user; what it does once the call returns is the rest of
\* getOrCreateUserTopic and of forwardToManagement.

\* The handlers that may be suspended at once.
MaxAwait == 2

\* A variant that looks at the Map again once createForumTopic has returned:
\* C24 fails of it.
createUserTopicRechecked(ut, tu, chatId, create, welcome, help) ==
  IF chatId \in DOMAIN ut
  THEN [userTopics |-> ut, topicUsers |-> tu, ret |-> ut[chatId], calls |-> 1,
        created |-> None, welcome |-> "none", notice |-> "none",
        failure |-> "none"]
  ELSE getOrCreateUserTopic(ut, tu, chatId, create, welcome, help)

\* getOrCreateUserTopic from the return of createForumTopic on (lines
\* 140-203), on the Maps as they are by then: userTopics.set and
\* topicUsers.set without a second look at the Maps.
createUserTopic(ut, tu, chatId, create, welcome, help) ==
  LET Notice(err) == IF err = "perm"
                     THEN (IF help = "ok" THEN "sent" ELSE "failed")
                     ELSE "none"
  IN IF create = "ok"
     THEN LET topicId == nextUnitId
          IN [userTopics |-> MapSet(ut, chatId, topicId),
              topicUsers |-> MapSet(tu, topicId, chatId),
              ret |-> IF welcome = "ok" THEN topicId ELSE None,
              calls |-> 1, created |-> topicId, welcome |-> welcome,
              notice |-> IF welcome = "ok" THEN "none" ELSE Notice(welcome),
              failure |-> "none"]
     ELSE [userTopics |-> ut, topicUsers |-> tu, ret |-> None, calls |-> 1,
           created |-> None, welcome |-> "none", notice |-> Notice(create),
           failure |-> create]

\* forwardToManagement from the return of createForumTopic on (lines
\* 239-279), on the state as it is by then.
forwardToManagementResumed(i, text, o) ==
  LET messageText == TextOrDefault(text)
      g == createUserTopic(userTopics, topicUsers, i, o.create, o.welcome,
                           o.help)
      topicId == g.ret
      contextMessage == IF Truthy(topicId) THEN messageText
                        ELSE Labelled(i, messageText)
      scope == IF Truthy(topicId) THEN topicId ELSE None
      sent == o.send = "ok"
  IN [verified |-> IF o.send = "chat not found" THEN FALSE
                   ELSE managementChatVerified,
      userTopics |-> g.userTopics,
      topicUsers |-> g.topicUsers,
      pendingReplies |->
        IF sent
        THEN pendingRepliesSet(pendingReplies, i, messageText, nextMsgId,
                               topicId)
        ELSE pendingReplies,
      forwardedMessageMap |->
        IF sent THEN forwardedMessageMapSet(forwardedMessageMap, nextMsgId, i)
        ELSE forwardedMessageMap,
      stage |-> "sent", calls |-> g.calls, created |-> g.created,
      welcome |-> g.welcome, notice |-> g.notice, failure |-> g.failure,
      scope |-> scope, payload |-> contextMessage, send |-> o.send,
      fwdId |-> IF sent THEN nextMsgId ELSE None]

\* awaiting without its k-th handler.
Resumed(k) == SubSeq(awaiting, 1, k - 1) \o SubSeq(awaiting, k + 1, Len(awaiting))

\* bot.on('message'), a message of an external user, up to the await of
\* createForumTopic (lines 597-606, 216-228, 239-241, 126-140): the message
\* is logged, the management chat is verified or the probe finds it, topics
\* are on and userTopics has no topic of the user.
TelegramExternalBegin(texts) ==
  /\ platform = "telegram"
  /\ MANAGEMENT_CHAT_ID # None
  /\ USE_TOPICS
  /\ Len(awaiting) < MaxAwait
  /\ \E i \in Identities, text \in texts :
       /\ i \notin DOMAIN userTopics
       /\ awaiting' = Append(awaiting, [from |-> i, text |-> text])
       /\ last' = [op |-> "suspended", from |-> i, text |-> text,
                   persisted |-> <<UserMessage(i, text)>>,
                   before |-> Before(i), inFlight |-> Len(awaiting),
                   raised |-> FALSE, escaped |-> Escapes(FALSE)]
  /\ managementChatVerified' =
       (managementChatVerified \/ testManagementChat("ok").verified)
  /\ UNCHANGED <<messages, platform, MANAGEMENT_CHAT_ID, USE_TOPICS, userTopics,
                 topicUsers, pendingReplies, forwardedMessageMap, discordVars,
                 startupTimer, nextUnitId, nextMsgId, hist>>

\* The rest of a suspended handler, once createForumTopic has returned:
\* any of the suspended handlers, as the calls return in any order.
TelegramExternalResume(outcomes) ==
  /\ platform = "telegram"
  /\ awaiting # << >>
  /\ nextMsgId <= MaxMsg
  /\ \E k \in 1..Len(awaiting), o \in outcomes :
       LET h == awaiting[k]
           r == forwardToManagementResumed(h.from, h.text, o)
       IN /\ UsedForward(o, r)
          /\ WithinBounds(r)
          /\ managementChatVerified' = r.verified
          /\ userTopics' = r.userTopics
          /\ topicUsers' = r.topicUsers
          /\ pendingReplies' = r.pendingReplies
          /\ forwardedMessageMap' = r.forwardedMessageMap
          /\ nextUnitId' = IF r.created # None THEN nextUnitId + 1 ELSE nextUnitId
          /\ nextMsgId' = nextMsgId + 1
          /\ hist' = HistAfter(h.from, r)
          /\ awaiting' = Resumed(k)
          /\ last' = [op |-> "resumed", from |-> h.from, text |-> h.text,
                      create |-> o.create, found |-> MapGet(userTopics, h.from),
                      before |-> Before(h.from), fwd |-> r,
                      inFlight |-> Len(awaiting) - 1,
                      raised |-> FALSE, escaped |-> Escapes(FALSE)]
  /\ UNCHANGED <<messages, platform, MANAGEMENT_CHAT_ID, USE_TOPICS, discordVars,
                 startupTimer>>

\* The outcomes of the calls of a resumed forward: the topic is created or
\* not.
RaceOutcomes == {[ForwardOk EXCEPT !.create = c] : c \in CreateOutcomes}

\* Racing: the Telegram bot, where inbound messages are handled in one piece
\* or suspended at the creation of a topic while other messages, the
\* commands of the operator that link the first identity among them, are
\* handled.
InitRace == Init /\ platform = "telegram"

NextRace ==
  \/ TelegramStartupProbe
  \/ TelegramExternal(PlainTexts, {ForwardOk})
  \/ TelegramExternalBegin(PlainTexts)
  \/ TelegramExternalResume(RaceOutcomes)
  \/ TelegramManagement(RelinkTexts, {None}, {None}, {BlockOk}, {"ok"})

SpecRace == InitRace /\ [][NextRace]_vars

\* C24: a handler that saw no topic of the user before createForumTopic and
\* whose call succeeded writes the topic it created into both tables,
\* whatever the tables hold by then: the identity is mapped to the topic
\* written last, a topic the identity got in the meantime (from a handler
\* of another message of the same user, or from /link_topic) keeps its
\* reverse entry, and nothing fails or is reported.
C24_LastWriteWins ==
  (last.op = "resumed" /\ last.create = "ok") =>
    /\ last.fwd.created # None
    /\ last.fwd.failure = "none"
    /\ last.fwd.notice = "none"
    /\ MapGet(userTopics, last.from) = last.fwd.created
    /\ MapGet(topicUsers, last.fwd.created) = last.from
    /\ (last.found # None => last.found \in DOMAIN topicUsers)

\* Two topics were created for one identity and the table holds the second.
C24_TwoUnitsCreated ==
  /\ last.op = "resumed"
  /\ last.found # None
  /\ last.fwd.created # None
  /\ hist.created[last.from] = {last.found, last.fwd.created}
  /\ last.found # last.fwd.created
  /\ MapGet(userTopics, last.from) = last.fwd.created
  /\ MapGet(topicUsers, last.found) = last.from
  /\ last.fwd.failure = "none"
  /\ last.fwd.notice = "none"

\* C25: the handler of one message ends before the handler of the next
\* message of the same bot starts: while a handler is suspended, no handler
\* of a message starts, and the steps taken are the rest of the suspended
\* handler and the startup timer.
C25_RunToCompletion ==
  [][awaiting # << >> => last'.op \in {"resumed", "probe"}]_vars

\* No management chat (Telegram), no management guild or channel (Discord)
\* is set.
Unconfigured ==
  \/ platform = "telegram" /\ MANAGEMENT_CHAT_ID = None
  \/ platform = "discord" /\ MANAGEMENT_CHANNEL_ID = None

\* C26: while no management surface is set nothing is forwarded, no unit is
\* created and nothing is written to the ForwardRecords, the index or the
\* unit tables: the tables are empty, no unit id and no message id of the
\* management surface has been used, and an inbound message handled in that
\* state made no platform call.
C26_NothingBeforeConfigured ==
  Unconfigured =>
    /\ \A m \in {userTopics, topicUsers, pendingReplies, forwardedMessageMap,
                 userThreads, threadUsers, pendingRepliesDiscord} :
         m = EmptyMap
    /\ nextUnitId = 1
    /\ hist.forwarded = EmptyMap
    /\ \A i \in Identities : hist.created[i] = {}
    /\ (last.op = "inbound" =>
          /\ last.fwd.stage \in {"unconfigured", "not logged"}
          /\ last.fwd.send = "none"
          /\ last.fwd.calls = 0
          /\ last.fwd.created = None
          /\ last.fwd.fwdId = None)

\* A message of a user was logged and not forwarded, for want of a
\* management surface.
C26_LoggedNotForwarded ==
  /\ Unconfigured
  /\ last.op = "inbound"
  /\ last.log = "ok"
  /\ last.fwd.stage = "unconfigured"
  /\ last.fwd.send = "none"
  /\ pendingRepliesDiscord = EmptyMap

\* C27, as the specification has it: a message taken for a setup request
\* makes its chat the management chat, and the message before it was not
\* taken for one.
C27_OneShotSetup ==
  [][last'.op = "setup" =>
       /\ MANAGEMENT_CHAT_ID' = last'.chat
       /\ last.op # "setup"]_vars

\* C27, amended: while no management chat is set every message of the
\* Telegram bot is answered with the setup text, and the answer changes
\* neither the configuration nor the tables.
C27_SetupEveryMessage ==
  [][/\ (platform = "telegram" /\ MANAGEMENT_CHAT_ID = None =>
           /\ last'.op = "setup"
           /\ last'.responses \in {1, 2})
     /\ (last'.op = "setup" =>
           /\ MANAGEMENT_CHAT_ID' = None
           /\ UNCHANGED <<USE_TOPICS, managementChatVerified, userTopics,
                          topicUsers, pendingReplies, forwardedMessageMap,
                          nextUnitId, nextMsgId>>)]_vars

\* A second message in a row was answered with the setup text, and no
\* management chat is set.
C27_SetupAgain ==
  /\ last.op = "setup"
  /\ last.again
  /\ MANAGEMENT_CHAT_ID = None

\* A message was handled: every step but the startup timer.
Handled == last.op \in {"setup", "inbound", "suspended", "resumed", "operator"}

----------------------------------------------------------------------------
\* The HTTP API: DELETE /api/chats/clear
\*
\* messages holds the rows of the table 'messages' the API works on.  A
\* query parameter that is absent is written "" (a date: None): the route
\* and clearMessages test the parameters for truthiness, and the empty
\* string is as falsy as undefined.

\* The days of created_at.
MaxDay == 2

\* The rows that may be stored: both platforms, both message types, texts
\* with and without the word searched for, both days.
Rows ==
  {[id |-> 1, platform |-> "telegram", message_type |-> "user",
    message_text |-> <<"hello">>, created_at |-> 1],
   [id |-> 2, platform |-> "telegram", message_type |-> "bot",
    message_text |-> <<"an", "Error">>, created_at |-> 2],
   [id |-> 3, platform |-> "discord", message_type |-> "user",
    message_text |-> <<"error">>, created_at |-> 1],
   [id |-> 4, platform |-> "discord", message_type |-> "bot",
    message_text |-> <<"hello">>, created_at |-> 2]}

\* The queries of a clear request.
ClearQueries ==
  [platform : {"", "telegram", "discord"}, messageType : {"", "user", "bot"},
   search : {"", "error"}, dateFrom : {None, MaxDay}, dateTo : {None, 1},
   confirm : {"", "true", "TRUE", "yes"}]

\* The filters of the dashboard (this.currentFilters).
CurrentFilters ==
  [platform : {"", "telegram"}, messageType : {"", "bot"}, search : {"", "error"}]

\* Lower case of the words of the model.
Lower(w) == IF w = "Error" THEN "error" ELSE w

\* ilike('message_text', `%${search}%`) (getMessages, lines 537-538): the
\* text holds the word, whatever the case.
ilike(text, search) == \E k \in 1..Len(text) : Lower(text[k]) = Lower(search)

\* The rows clearMessages(filters) deletes (lines 639-659): those that pass
\* every filter given, and every row (id >= 1) when none is given.
Selected(store, filters) ==
  LET hasFilters == \/ filters.platform # ""
                    \/ filters.messageType # ""
                    \/ filters.dateFrom # None
                    \/ filters.dateTo # None
  IN {row \in store :
        /\ (filters.platform # "" => row.platform = filters.platform)
        /\ (filters.messageType # "" => row.message_type = filters.messageType)
        /\ (filters.dateFrom # None => row.created_at >= filters.dateFrom)
        /\ (filters.dateTo # None => row.created_at <= filters.dateTo)
        /\ (~hasFilters => row.id >= 1)}

\* clearMessages(filters) (lines 634-673) on the table store; db is the
\* outcome of the query.  The catch returns the error with count 0.
clearMessages(store, filters, db) ==
  IF db = "ok"
  THEN [store |-> store \ Selected(store, filters),
        count |-> Cardinality(Selected(store, filters)), error |-> FALSE]
  ELSE [store |-> store, count |-> 0, error |-> TRUE]

\* A variant that takes any confirm parameter that is given: C30 fails of
\* it.
clearRouteAnyConfirm(store, query, db) ==
  IF query.confirm = ""
  THEN [store |-> store, status |-> 400, code |-> "CONFIRMATION_REQUIRED",
        reached |-> FALSE, deletedCount |-> 0]
  ELSE [store |-> clearMessages(store, query, db).store,
        status |-> IF db = "ok" THEN 200 ELSE 500,
        code |-> IF db = "ok" THEN "" ELSE "CLEAR_ERROR",
        reached |-> TRUE, deletedCount |-> clearMessages(store, query, db).count]

\* router.delete('/clear') (lines 282-322): the confirm check, the filters
\* built of platform, messageType, dateFrom and dateTo (search is not read),
\* clearMessages, and the response.  reached tells whether clearMessages was
\* called.
clearRoute(store, query, db) ==
  IF query.confirm # "true"
  THEN [store |-> store, status |-> 400, code |-> "CONFIRMATION_REQUIRED",
        reached |-> FALSE, deletedCount |-> 0]
  ELSE LET filters == [platform |-> query.platform,
                       messageType |-> query.messageType,
                       dateFrom |-> query.dateFrom, dateTo |-> query.dateTo]
           r == clearMessages(store, filters, db)
       IN IF r.error
          THEN [store |-> r.store, status |-> 500, code |-> "CLEAR_ERROR",
                reached |-> TRUE, deletedCount |-> 0]
          ELSE [store |-> r.store, status |-> 200, code |-> "",
                reached |-> TRUE, deletedCount |-> r.count]

\* The query Dashboard.clearData(useFilters) sends once the user has
\* confirmed twice (lines 586-597): confirm=true and, for a filtered clear,
\* the platform and the message type of the current filters.
clearData(currentFilters, useFilters) ==
  [platform |-> IF useFilters THEN currentFilters.platform ELSE "",
   messageType |-> IF useFilters THEN currentFilters.messageType ELSE "",
   search |-> "", dateFrom |-> None, dateTo |-> None, confirm |-> "true"]

\* What a clear was asked to delete: the rows that pass every filter the
\* request carries, the search among them.
Asked(store, f) ==
  {row \in store :
     /\ (f.platform # "" => row.platform = f.platform)
     /\ (f.messageType # "" => row.message_type = f.messageType)
     /\ (f.search # "" => ilike(row.message_text, f.search))
     /\ (f.dateFrom # None => row.created_at >= f.dateFrom)
     /\ (f.dateTo # None => row.created_at <= f.dateTo)}

\* The variables of the bots.
botVars == <<platform, telegramVars, discordVars, startupTimer, nextUnitId,
             nextMsgId, hist, awaiting>>

\* The insert of logMessage (lines 482-485): a row is stored.
InsertMessage ==
  /\ \E row \in Rows \ messages :
       /\ messages' = messages \cup {row}
       /\ last' = [op |-> "insert", row |-> row]
  /\ UNCHANGED botVars

\* A DELETE /api/chats/clear request with any query.
ApiClear ==
  /\ \E query \in ClearQueries, db \in SendOutcomes :
     \E r \in {clearRoute(messages, query, db)} :
       /\ (~r.reached => db = "ok")
       /\ messages' = r.store
       /\ last' = [op |-> "clear", via |-> "api", query |-> query,
                   asked |-> Asked(messages, query), before |-> messages,
                   status |-> r.status, code |-> r.code, reached |-> r.reached,
                   deletedCount |-> r.deletedCount]
  /\ UNCHANGED botVars

\* What the user may type into the prompt of clearData; "" is a prompt that
\* was cancelled or left empty.
TypedPhrases == {"", "DELETE ALL", "DELETE FILTERED", "delete all"}

\* A variant that takes either phrase for either operation: C31 fails of
\* it.
clearDataConfirmedAnyPhrase(useFilters, accepted, typed) ==
  accepted /\ typed \in {"DELETE ALL", "DELETE FILTERED"}

\* The two confirmations of Dashboard.clearData(useFilters) (lines 568-580):
\* confirm(message) was accepted and the text typed into the prompt is the
\* phrase of the operation.
clearDataConfirmed(useFilters, accepted, typed) ==
  /\ accepted
  /\ typed = (IF useFilters THEN "DELETE FILTERED" ELSE "DELETE ALL")

\* 'Clear Filtered' and 'Clear All' of the dashboard: clearData(useFilters)
\* with the filters the user has set.  accepted is the answer to the
\* confirm dialog and typed the text of the prompt; the request is sent
\* when both confirm, and nothing is sent otherwise.
DashboardClear ==
  /\ \E cf \in CurrentFilters, useFilters \in BOOLEAN, db \in SendOutcomes,
        accepted \in BOOLEAN, typed \in TypedPhrases :
     \E query \in {clearData(cf, useFilters)} :
     \E r \in {clearRoute(messages, query, db)} :
       /\ (~useFilters => cf = [platform |-> "", messageType |-> "", search |-> ""])
       /\ (~accepted => typed = "")
       /\ IF clearDataConfirmed(useFilters, accepted, typed)
          THEN /\ messages' = r.store
               /\ last' = [op |-> "clear",
                           via |-> IF useFilters THEN "filtered" ELSE "all",
                           accepted |-> accepted, typed |-> typed,
                           query |-> query,
                           asked |-> Asked(messages,
                                           [query EXCEPT !.search = cf.search]),
                           before |-> messages,
                           status |-> r.status, code |-> r.code,
                           reached |-> r.reached,
                           deletedCount |-> r.deletedCount]
          ELSE /\ db = "ok"
               /\ messages' = messages
               /\ last' = [op |-> "cancelled",
                           via |-> IF useFilters THEN "filtered" ELSE "all",
                           accepted |-> accepted, typed |-> typed,
                           before |-> messages]
  /\ UNCHANGED botVars

\* Clearing: rows are stored and cleared, through the API and the dashboard.
InitClear ==
  Init /\ platform = "telegram" /\ MANAGEMENT_CHAT_ID = None /\ ~USE_TOPICS

NextClear ==
  \/ InsertMessage
  \/ ApiClear
  \/ DashboardClear

SpecClear == InitClear /\ [][NextClear]_vars

\* C29: a clear that succeeds deletes the rows that match every filter of
\* the request, platform, search and messageType among them, and leaves the
\* others stored.
C29_OnlyMatchingDeleted ==
  (last.op = "clear" /\ last.status = 200) =>
    messages = last.before \ last.asked

\* C30: a request of the API whose confirm parameter is not 'true' is
\* answered with 400 and CONFIRMATION_REQUIRED, never reaches clearMessages
\* and leaves every row stored, whatever its other parameters are.
C30_ConfirmationRequired ==
  (last.op = "clear" /\ last.query.confirm # "true") =>
    /\ last.status = 400
    /\ last.code = "CONFIRMATION_REQUIRED"
    /\ ~last.reached
    /\ last.deletedCount = 0
    /\ messages = last.before

\* A request with filters that match stored rows and confirm=TRUE was
\* refused and the rows are still stored.
C30_Refused ==
  /\ last.op = "clear"
  /\ last.query.confirm = "TRUE"
  /\ last.query.platform = "telegram"
  /\ last.asked # {}
  /\ last.status = 400
  /\ messages = last.before

\* The dashboard's clearData was the last thing to run.
Dashboard == last.op \in {"clear", "cancelled"} /\ last.via \in {"filtered", "all"}

\* C31: the dashboard sends a DELETE request only when the user accepted
\* the dialog and typed the phrase of the operation chosen, 'DELETE
\* FILTERED' for a filtered clear and 'DELETE ALL' for a clear of
\* everything; otherwise no request is sent and the rows stay as they were.
C31_DoubleConfirmation ==
  Dashboard =>
    /\ (last.op = "clear" =>
          /\ last.accepted
          /\ last.typed = (IF last.via = "filtered" THEN "DELETE FILTERED"
                           ELSE "DELETE ALL"))
    /\ (last.op = "cancelled" => messages = last.before)
    /\ (~last.accepted \/ last.typed \notin {"DELETE ALL", "DELETE FILTERED"}
          => last.op = "cancelled")

\* The user accepted the dialog of a filtered clear and typed the phrase of
\* the other operation: nothing was sent and the rows are stored still.
C31_WrongPhrase ==
  /\ last.op = "cancelled"
  /\ last.via = "filtered"
  /\ last.accepted
  /\ last.typed = "DELETE ALL"
  /\ messages # {}
  /\ messages = last.before

----------------------------------------------------------------------------
\* Commands typed anywhere

\* The texts of the management surface that are administrative commands.
AdminTexts == CommandTexts \cup LinkTexts \cup DiscordCommandTexts

\* Commands: inbound messages whose platform calls succeed, and operators
\* who type commands in the shared chat and in any topic or thread, in
\* reply to anything.
NextCommand ==
  \/ TelegramStartupProbe
  \/ TelegramExternal(PlainTexts, {ForwardOk})
  \/ TelegramManagement(CommandTexts \cup RelinkTexts, Threads, ReplyTargets,
                        {BlockOk}, {"ok"})
  \/ DiscordStartupProbe
  \/ DiscordExternal(PlainTexts, {ForwardOkDiscord})
  \/ DiscordManagement(DiscordCommandTexts, Threads, ReplyTargets,
                       {BlockOkDiscord}, {"ok"})

SpecCommand == Init /\ [][NextCommand]_vars

\* C32: the text of an administrative command is never sent to an external
\* identity, wherever in the management surface the operator types it: the
\* handler of a command makes no attempt to deliver.
C32_CommandsNotDelivered ==
  (last.op = "operator" /\ last.msg.text \in AdminTexts) =>
    last.attempts = << >>

----------------------------------------------------------------------------
\* Addressed replies typed as replies

\* Falling back: the Telegram bot, where inbound messages are forwarded and
\* operators type addressed text in the shared chat and in any topic, with
\* no reply and in reply to a message the index does not hold, with every
\* outcome of the calls of a reply block.
InitFallback == Init /\ platform = "telegram"

NextFallback ==
  \/ TelegramStartupProbe
  \/ TelegramExternal(PlainTexts, {ForwardOk})
  \/ TelegramManagement(LegacyTexts, Threads, {None, OtherMsg}, BlockOutcomes,
                        {"ok"})

SpecFallback == InitFallback /\ [][NextFallback]_vars

\* The attempts of the last operator message that reached the user.
Deliveries == {k \in DOMAIN last.attempts : last.attempts[k].delivered}

\* C33: an operator message is delivered to at most one external identity,
\* once: of the attempts its handler makes at most one reaches a user,
\* whatever the outcomes of the calls.
C33_OneDelivery ==
  last.op = "operator" => Cardinality(Deliveries) <= 1

----------------------------------------------------------------------------
\* Telegram: the command handlers of external users
\*
\* bot.onText(/\/start/, ...) and bot.onText(/\/help/, ...) are registered
\* on the bot that bot.on('message', ...) is registered on.  The library
\* emits 'message' for a message and then calls the onText callbacks whose
\* pattern is found in its text, so a message with '/start' in it is handled
\* by the message handler and by the callback.

\* Texts of external users: plain, a command, a command in a sentence.
UserTexts == {<<"a">>, <<"/start">>, <<"/help">>, <<"a", " ", "/start">>}

\* /\/start/ and /\/help/: the word is found anywhere in the text.
StartMatch(text) == \E k \in 1..Len(text) : text[k] = "/start"
HelpMatch(text) == \E k \in 1..Len(text) : text[k] = "/help"

\* The outcomes of the calls of a callback: the insert of the message, the
\* send of the answer, the insert of the answer.
OnTextOutcomes == [log : SendOutcomes, send : SendOutcomes, log2 : SendOutcomes]

\* What the body of a callback passes to logMessage (lines 630-651,
\* 665-690): the message of the user, and the answer once it was sent.
OnTextLogged(i, text, o) ==
  <<UserMessage(i, text)>> \o
  (IF o.log = "ok" /\ o.send = "ok"
   THEN <<SentMessage(i, <<"answer">>)>> ELSE << >>)

\* bot.onText(/\/start/) and bot.onText(/\/help/) (lines 616-652, 657-691)
\* for the message of an external user that the message handler handled
\* last: logMessage(msg), the answer to the user, logMessage(answer), all in
\* a try whose catch writes to the console.  persisted is what logMessage
\* was called with for this message so far, by the message handler and by
\* the callback.
TelegramOnText ==
  /\ platform = "telegram"
  /\ MANAGEMENT_CHAT_ID # None
  /\ last.op = "inbound"
  /\ \E command \in {"start", "help"}, o \in OnTextOutcomes :
       /\ IF command = "start" THEN StartMatch(last.text) ELSE HelpMatch(last.text)
       /\ (o.log # "ok" => o.send = "ok")
       /\ (o.log # "ok" \/ o.send # "ok" => o.log2 = "ok")
       /\ last' = [op |-> "onText", command |-> command, from |-> last.from,
                   text |-> last.text,
                   persisted |-> last.persisted \o
                                 OnTextLogged(last.from, last.text, o),
                   answered |-> o.log = "ok" /\ o.send = "ok",
                   raised |-> o # [log |-> "ok", send |-> "ok", log2 |-> "ok"],
                   escaped |-> Escapes(o # [log |-> "ok", send |-> "ok",
                                            log2 |-> "ok"])]
  /\ UNCHANGED <<botVars, messages>>

\* External users who write commands: the Telegram bot, where inbound
\* messages with and without /start and /help are handled, the insert of
\* the message failing or not.
InitOnText == Init /\ platform = "telegram"

NextOnText ==
  \/ TelegramStartupProbe
  \/ TelegramExternal(UserTexts, {ForwardOk, [ForwardOk EXCEPT !.log = "fail"]})
  \/ TelegramOnText

SpecOnText == InitOnText /\ [][NextOnText]_vars

\* The calls of logMessage with the message of the user, among the calls
\* made for the message handled last.
UserLogCalls ==
  {k \in DOMAIN last.persisted :
     last.persisted[k] = UserMessage(last.from, last.text)}

\* C34: the message of an external user is passed to logMessage once,
\* whatever its text is.
C34_LoggedOnce ==
  last.op \in {"inbound", "onText"} => Cardinality(UserLogCalls) = 1

\* C35: the notice an operator reply gets tells what became of the
\* delivery: a failure notice is posted only for a text that did not reach
\* the user, a confirmation only for one that did.
C35_NoticeMatchesDelivery ==
  last.op = "operator" =>
    \A k \in DOMAIN last.attempts :
      /\ (last.attempts[k].notice # "none" => ~last.attempts[k].delivered)
      /\ (last.attempts[k].confirm = "ok" => last.attempts[k].delivered)

\* C36: a unit the platform created is used: the message that caused the
\* creation is forwarded into the unit with no label, and no 'manual
\* creation needed' notice is sent, whatever becomes of the welcome message.
C36_CreationUsed ==
  (last.op = "inbound" /\ last.fwd.created # None) =>
    /\ last.fwd.scope = last.fwd.created
    /\ last.fwd.payload = TextOrDefault(last.text)
    /\ last.fwd.notice = "none"

\* C37: an operator message that runs no /link_topic leaves the unit tables
\* and the forwarded-message index as they are, whatever strategy it takes
\* and whatever becomes of the reply; the ForwardRecords change only by the
\* removal of the record of the addressed identity, after a legacy reply
\* that was sent, logged and confirmed.
C37_RepliesKeepRouting ==
  [][(last'.op = "operator" /\ last'.admin # "link") =>
       /\ UNCHANGED <<userTopics, topicUsers, forwardedMessageMap, userThreads,
                      threadUsers, pendingRepliesDiscord>>
       /\ \/ UNCHANGED pendingReplies
          \/ /\ Len(last'.attempts) >= 1
             /\ last'.attempts[Len(last'.attempts)].strategy = "legacy"
             /\ last'.attempts[Len(last'.attempts)].completed
             /\ pendingReplies' =
                  MapDelete(pendingReplies,
                            last'.attempts[Len(last'.attempts)].to)]_vars

\* A legacy reply to an identity with a unit and an indexed forward was
\* sent and confirmed: its record is gone, the tables and the index hold
\* what they held.
C37_RecordRemoved ==
  /\ last.op = "operator"
  /\ Len(last.attempts) = 1
  /\ last.attempts[1].strategy = "legacy"
  /\ last.attempts[1].completed
  /\ last.attempts[1].to \notin DOMAIN pendingReplies
  /\ last.attempts[1].to \in DOMAIN userTopics
  /\ \E f \in DOMAIN forwardedMessageMap :
       forwardedMessageMap[f] = last.attempts[1].to

\* The verified flag of the platform that runs.
Verified ==
  IF platform = "telegram" THEN managementChatVerified
  ELSE managementChannelVerified

\* The forward f failed in the way that clears the flag: on Telegram the
\* send failed with 'chat not found', on Discord the message was not sent.
ForwardCleared(f) ==
  IF platform = "telegram" THEN f.send = "chat not found" ELSE f.send # "ok"

\* What C38 asks of a handler that left l in last and the flag at v: a
\* forward that starts with the flag down sends the probe first; when the
\* probe fails nothing is sent or created and the flag stays down, when it
\* succeeds the forward goes on and the flag is up unless the forward
\* clears it; a forward that starts with the flag up sends no probe; and
\* the flag goes down only by a probe or a forward that failed.
Gated(l, v) ==
  /\ (l.op = "inbound" /\ l.fwd.stage \notin {"not logged", "unconfigured"} =>
        /\ (l.before.verified => l.fwd.stage # "unverified")
        /\ (l.fwd.stage = "unverified" =>
              /\ ~l.before.verified
              /\ ~v
              /\ l.fwd.send = "none"
              /\ l.fwd.calls = 0
              /\ l.fwd.created = None
              /\ l.fwd.fwdId = None)
        /\ (l.fwd.stage # "unverified" => v = ~ForwardCleared(l.fwd)))
  /\ (l.op = "inbound" /\ l.fwd.stage \in {"not logged", "unconfigured"} =>
        v = l.before.verified)
  /\ (l.op = "probe" => v = (l.probe = "ok"))
  /\ (l.op \notin {"inbound", "probe"} => v = Verified)

\* C38: the verified flag gates every forward and recovers with the next
\* probe that succeeds; a forward the probe stopped changes no table.
C38_Gating ==
  [][/\ Gated(last', Verified')
     /\ (last'.op = "inbound" /\ last'.fwd.stage = "unverified" =>
           UNCHANGED <<userTopics, topicUsers, pendingReplies,
                       forwardedMessageMap, userThreads, threadUsers,
                       pendingRepliesDiscord, nextUnitId>>)]_vars

\* A message was forwarded before, the flag went down, and the probe of
\* this forward found the management surface: the message was forwarded
\* and the flag is up.
C38_Recovered ==
  /\ last.op = "inbound"
  /\ ~last.before.verified
  /\ last.fwd.stage = "sent"
  /\ last.fwd.send = "ok"
  /\ Verified
  /\ \E f \in DOMAIN hist.forwarded : f # last.fwd.fwdId

====
